---- MODULE Spec2Model ----
(***************************************************************************)
(* Model of the wellness-coaching chat backend (apps/api): the chat        *)
(* router, the EnhancedLLMProvider fallback orchestrator and its rule-     *)
(* based intent cascade and suggestion generators.                         *)
(*                                                                         *)
(* Python values are modelled as follows.                                  *)
(*   str            a TLA+ string (substring tests are real substring      *)
(*                  tests on the characters)                               *)
(*   dict entry     [k |-> "absent" | "null" | "val", v |-> value]         *)
(*   datetime       [day, hour, minute]; isoformat() is the fixed-width    *)
(*                  tuple <<day, hour, minute>>, ordered lexicographically *)
(*                  as the ISO strings are                                 *)
(*   raise          a result record with status 500 and the exception name *)
(***************************************************************************)
EXTENDS Integers, Sequences, FiniteSets, TLC

\* ------------------------------------------------------------------ bounds
\* `now` ranges over days 0..MaxDay
MaxDay == 1

\* at most MaxFetches /classes requests are served in one behaviour
MaxFetches == 2

\* longest conversation history given to the context analyzer
MaxHistory == 6

\* threads of the calorie estimator's pool
MaxThreads == 3

\* log_estimation calls in one behaviour
MaxEntries == 3

\* ------------------------------------------------------------ str helpers
LowerAlphabet == "abcdefghijklmnopqrstuvwxyz"
UpperAlphabet == "ABCDEFGHIJKLMNOPQRSTUVWXYZ"

CharAt(s, i) == SubSeq(s, i, i)

\* the characters str.lower() and str.upper() change
CaseChars ==
    [upper |-> { CharAt(UpperAlphabet, i) : i \in 1..26 },
     lower |-> { CharAt(LowerAlphabet, i) : i \in 1..26 }]

\* one character of str.lower()
LowerChar(c) ==
    IF c \in CaseChars.upper
    THEN CharAt(LowerAlphabet, CHOOSE i \in 1..26 : CharAt(UpperAlphabet, i) = c)
    ELSE c

RECURSIVE Lower(_)
\* str.lower()
Lower(s) == IF Len(s) = 0 THEN "" ELSE LowerChar(CharAt(s, 1)) \o Lower(SubSeq(s, 2, Len(s)))

IsSpace(c) == c \in {" ", "\t", "\n"}

RECURSIVE LStrip(_)
LStrip(s) ==
    IF Len(s) > 0 /\ IsSpace(CharAt(s, 1)) THEN LStrip(SubSeq(s, 2, Len(s))) ELSE s

RECURSIVE RStrip(_)
RStrip(s) ==
    IF Len(s) > 0 /\ IsSpace(CharAt(s, Len(s))) THEN RStrip(SubSeq(s, 1, Len(s) - 1)) ELSE s

\* str.strip()
Strip(s) == RStrip(LStrip(s))

\* str.capitalize()
Capitalize(s) ==
    IF Len(s) = 0 THEN ""
    ELSE (IF CharAt(s, 1) \in CaseChars.lower
          THEN CharAt(UpperAlphabet,
                      CHOOSE i \in 1..26 : CharAt(LowerAlphabet, i) = CharAt(s, 1))
          ELSE CharAt(s, 1))
         \o Lower(SubSeq(s, 2, Len(s)))

\* Python `w in s` for two strings
Contains(s, w) ==
    \E i \in 1..(Len(s) - Len(w) + 1) : SubSeq(s, i, i + Len(w) - 1) = w

\* Python any(word in s for word in words)
AnyIn(s, words) == \E w \in words : Contains(s, w)

\* Python s.startswith(p)
StartsWith(s, p) == Len(s) >= Len(p) /\ SubSeq(s, 1, Len(p)) = p

\* Python ", ".join(seq)
RECURSIVE Join(_)
Join(seq) ==
    IF Len(seq) = 0 THEN ""
    ELSE IF Len(seq) = 1 THEN seq[1]
    ELSE seq[1] \o ", " \o Join(Tail(seq))

\* Python seq[:n]
Take(seq, n) == SubSeq(seq, 1, IF Len(seq) < n THEN Len(seq) ELSE n)

\* ------------------------------------------------------- dict-entry values
Absent(zero) == [k |-> "absent", v |-> zero]
Null(zero)   == [k |-> "null", v |-> zero]
Val(x)       == [k |-> "val", v |-> x]

\* dict.get(key, default): the default only replaces a missing key

\* Python truthiness of a str / list entry
Truthy(entry) == entry.k = "val" /\ Len(entry.v) > 0

\* -------------------------------------------------------------- datetime
DateTime(d, h, m) == [day |-> d, hour |-> h, minute |-> m]

\* datetime.replace(hour=h, minute=0, second=0, microsecond=0)
ReplaceHour(dt, h) == [dt EXCEPT !.hour = h, !.minute = 0]

\* datetime + timedelta(minutes=n)
AddMinutes(dt, n) ==
    LET total == dt.hour * 60 + dt.minute + n
    IN  [day |-> dt.day + (total \div 1440),
         hour |-> (total % 1440) \div 60,
         minute |-> total % 60]

\* datetime.isoformat()
IsoFormat(dt) == <<dt.day, dt.hour, dt.minute>>

\* ------------------------------------------------------------ results
\* a ChatResponse dict returned to the caller
Response(t, m, s) ==
    [status |-> 200, type |-> t, message |-> m, suggestions |-> s, error |-> "none"]

\* an exception propagating out of a function (the chat router turns it into
\* HTTPException(status_code=500))
Raise(exc) ==
    [status |-> 500, type |-> "error", message |-> exc, suggestions |-> <<>>, error |-> exc]

\* value-or-exception result of a helper that returns a list
Ok(list) == [exc |-> "none", val |-> list]
Fail(exc) == [exc |-> exc, val |-> <<>>]

\* ------------------------------------------------------------ user profile
\* `if user_profile` : None and {} are falsy
ProfileTruthy(p) ==
    /\ p.present
    /\ \/ p.other
       \/ p.name.k # "absent"
       \/ p.primaryGoal.k # "absent"
       \/ p.dietPrefs.k # "absent"
       \/ p.timePrefs.k # "absent"

\* user_profile.get(key, default) if user_profile else fallback
ProfileGet(p, entry, default, fallback) ==
    IF ~ProfileTruthy(p) THEN Val(fallback)
    ELSE IF entry.k = "absent" THEN Val(default) ELSE entry

\* ------------------------------------------------- suggestion generators
WorkoutStartHour(time_pref) ==
    IF time_pref = "morning" THEN 7
    ELSE IF time_pref = "afternoon" THEN 14
    ELSE 18

WorkoutType(goal) ==
    IF Contains(Lower(goal), "strength") \/ Contains(Lower(goal), "muscle") THEN "strength"
    ELSE IF Contains(Lower(goal), "cardio") \/ Contains(Lower(goal), "endurance") THEN "cardio"
    ELSE "mixed"

WorkoutTitle(goal) ==
    IF WorkoutType(goal) = "strength" THEN "Strength Training"
    ELSE IF WorkoutType(goal) = "cardio" THEN "Cardio Workout"
    ELSE "Full Body Workout"

\* one element appended by the loop of _generate_workout_suggestions
WorkoutSuggestion(i, time_pref, goal, now) ==
    LET start == ReplaceHour(now, WorkoutStartHour(time_pref))
    IN  [id |-> IF i = 0 THEN "w_0" ELSE "w_1",
         kind |-> "workout",
         title |-> WorkoutTitle(goal),
         desc |-> "45-minute " \o WorkoutType(goal) \o " session",
         cta |-> "Add to Calendar",
         payload |-> [startISO |-> IsoFormat(start),
                      endISO |-> IsoFormat(AddMinutes(start, 45)),
                      type |-> WorkoutType(goal),
                      duration |-> 45]]

\* the list returned when the loop appended nothing
DefaultWorkoutSuggestions(now) ==
    << [id |-> "w1",
        kind |-> "workout",
        title |-> "Evening Workout",
        desc |-> "45-minute full body session",
        cta |-> "Add to Calendar",
        payload |-> [startISO |-> IsoFormat(ReplaceHour(now, 18)),
                     endISO |-> IsoFormat(AddMinutes(ReplaceHour(now, 18), 45))]] >>

\* _generate_workout_suggestions(user_profile, time_prefs); time_prefs is the
\* entry the handler read from the profile (None when the value is null)
GenerateWorkoutSuggestions(p, time_prefs, now) ==
    LET goal == ProfileGet(p, p.primaryGoal, "", "")
    IN  IF time_prefs.k = "null" THEN Fail("TypeError")           \* None[:2]
        ELSE LET firstTwo == Take(time_prefs.v, 2)
             IN  IF Len(firstTwo) = 0 THEN Ok(DefaultWorkoutSuggestions(now))
                 ELSE IF goal.k = "null" THEN Fail("AttributeError")  \* None.lower()
                 ELSE Ok([i \in 1..Len(firstTwo) |->
                            WorkoutSuggestion(i - 1, firstTwo[i], goal.v, now)])

\* Python `x in list`
InList(x, list) == \E i \in 1..Len(list) : list[i] = x

MealSuggestion(id, title, desc, kcal, protein) ==
    [id |-> id, kind |-> "meal", title |-> title, desc |-> desc, cta |-> "Log Meal",
     payload |-> [kcal |-> kcal, protein |-> protein]]

\* _generate_meal_suggestions(diet_prefs, goal) on the entries the handler read
GenerateMealSuggestions(diet_prefs, goal) ==
    IF diet_prefs.k = "null" THEN Fail("TypeError")               \* "Vegetarian" in None
    ELSE IF goal.k = "null" THEN Fail("AttributeError")           \* None.lower()
    ELSE
      LET veg == IF InList("Vegetarian", diet_prefs.v) \/ InList("Vegan", diet_prefs.v)
                 THEN << MealSuggestion("m1", "Quinoa Buddha Bowl",
                                        "Roasted vegetables, tahini dressing", 450, 18) >>
                 ELSE << >>
          fit == IF Contains(Lower(goal.v), "fitness") \/ Contains(Lower(goal.v), "strength")
                 THEN << MealSuggestion("m2", "Grilled Chicken with Sweet Potato",
                                        "High protein, balanced macros", 580, 45) >>
                 ELSE << >>
      IN  IF Len(veg \o fit) = 0
          THEN Ok(<< MealSuggestion("m1", "Salmon with Quinoa", "Balanced nutrition", 520, 35) >>)
          ELSE Ok(veg \o fit)

\* _generate_class_suggestions with a payload that has no endISO
GenerateClassSuggestions_NoEnd(now) ==
    LET start == ReplaceHour(now, 19)
    IN  << [id |-> "c1", kind |-> "class", title |-> "HIIT Class",
            desc |-> "High-intensity interval training", cta |-> "Reserve Spot",
            payload |-> [startISO |-> IsoFormat(start),
                         location |-> "Fitness Center"]] >>

\* _generate_class_suggestions()
GenerateClassSuggestions(now) ==
    LET start == ReplaceHour(now, 19)
    IN  << [id |-> "c1", kind |-> "class", title |-> "HIIT Class",
            desc |-> "High-intensity interval training", cta |-> "Reserve Spot",
            payload |-> [startISO |-> IsoFormat(start),
                         endISO |-> IsoFormat(AddMinutes(start, 60)),
                         location |-> "Fitness Center"]] >>

\* _generate_daily_plan_suggestions(user_profile, time_prefs)
GenerateDailyPlanSuggestions(p, time_prefs, now) ==
    LET workout ==
          IF Truthy(time_prefs)
          THEN LET workout_time == time_prefs.v[1]
                   start == ReplaceHour(now, WorkoutStartHour(workout_time))
               IN  << [id |-> "w1", kind |-> "workout",
                       title |-> Capitalize(workout_time) \o " Workout",
                       desc |-> "45-minute session", cta |-> "Add to Calendar",
                       payload |-> [startISO |-> IsoFormat(start),
                                    endISO |-> IsoFormat(AddMinutes(start, 45))]] >>
          ELSE << >>
        meal == << MealSuggestion("m1", "Balanced Meal", "High protein, nutritious", 500, 30) >>
        class_start == ReplaceHour(now, 19)
        class == << [id |-> "c1", kind |-> "class", title |-> "Evening Fitness Class",
                     desc |-> "Group training session", cta |-> "Reserve Spot",
                     payload |-> [startISO |-> IsoFormat(class_start),
                                  endISO |-> IsoFormat(AddMinutes(class_start, 60))]] >>
    IN  workout \o meal \o class

\* ------------------------------------------------- conversation context
\* the tags one history turn appends to context["topics"], in order
TurnTopics(content) ==
    (IF AnyIn(content, {"workout", "exercise", "training", "fitness"}) THEN <<"workout">> ELSE <<>>)
    \o (IF AnyIn(content, {"meal", "food", "eat", "dinner", "lunch", "breakfast"}) THEN <<"meal">> ELSE <<>>)
    \o (IF AnyIn(content, {"class", "myrec", "schedule", "reserve"}) THEN <<"class">> ELSE <<>>)
    \o (IF AnyIn(content, {"plan", "daily", "today", "schedule"}) THEN <<"plan">> ELSE <<>>)

RECURSIVE TopicsOf(_)
TopicsOf(turns) ==
    IF Len(turns) = 0 THEN <<>>
    ELSE TurnTopics(Lower(turns[1].content)) \o TopicsOf(Tail(turns))

\* _analyze_conversation_history looping over the whole history
AnalyzeConversationHistory_AllTurns(history) == [topics |-> TopicsOf(history)]

\* _analyze_conversation_history(history): the loop runs over history[-5:]
AnalyzeConversationHistory(history) ==
    [topics |-> TopicsOf(SubSeq(history, IF Len(history) > 5 THEN Len(history) - 4 ELSE 1,
                                Len(history)))]

\* ------------------------------------------------------ rule-based handlers
\* _get_personalized_greeting(profile)
GetPersonalizedGreeting(p) ==
    IF ~ProfileTruthy(p) THEN "Hi! "
    ELSE IF Truthy(p.name) THEN "Hi " \o p.name.v \o "! "
    ELSE IF Truthy(p.primaryGoal)
         THEN "Hi! I see you're working on " \o Lower(p.primaryGoal.v) \o ". "
    ELSE "Hi! "

\* _handle_workout_questions(message, user_profile, context)
HandleWorkoutQuestions(message, p, now) ==
    LET goal == ProfileGet(p, p.primaryGoal, "", "")
        time_prefs == ProfileGet(p, p.timePrefs, <<>>, <<"evening">>)
        all == GenerateWorkoutSuggestions(p, time_prefs, now)
    IN  IF AnyIn(message, {"what", "suggest", "recommend", "should i do"})
        THEN IF all.exc # "none" THEN Raise(all.exc)
             ELSE IF goal.k = "null" THEN Raise("AttributeError")      \* goal.lower()
             ELSE Response("suggestions",
                    "Based on your goal of "
                      \o (IF Len(goal.v) > 0 THEN goal.v ELSE "general fitness")
                      \o ", I recommend a "
                      \o (IF Contains(Lower(goal.v), "strength") THEN "strength"
                          ELSE IF Contains(Lower(goal.v), "cardio") THEN "cardio"
                          ELSE "mixed")
                      \o " workout"
                      \o (IF Truthy(time_prefs) THEN " in the " \o time_prefs.v[1] ELSE "")
                      \o "!",
                    all.val)
        ELSE IF AnyIn(message, {"when", "time", "schedule"})
        THEN IF Truthy(time_prefs)
             THEN LET best == GenerateWorkoutSuggestions(p, Val(<<time_prefs.v[1]>>), now)
                  IN  IF best.exc # "none" THEN Raise(best.exc)
                      ELSE Response("message",
                             "Based on your preferences, " \o time_prefs.v[1]
                               \o " workouts work best for you! Would you like me to suggest a specific workout for that time?",
                             best.val)
             ELSE Response("message",
                    "I can help you schedule workouts! What time of day works best for you?",
                    <<>>)
        ELSE IF all.exc # "none" THEN Raise(all.exc)
             ELSE Response("suggestions", "Here are some workout suggestions for you!", all.val)

\* _handle_meal_questions(message, user_profile, context)
HandleMealQuestions(message, p) ==
    LET diet_prefs == ProfileGet(p, p.dietPrefs, <<>>, <<>>)
        goal == ProfileGet(p, p.primaryGoal, "", "")
        meals == GenerateMealSuggestions(diet_prefs, goal)
    IN  IF meals.exc # "none" THEN Raise(meals.exc)
        ELSE IF AnyIn(message, {"what", "suggest", "recommend", "should i eat", "hungry"})
        THEN Response("suggestions",
               "Here are some meal ideas that match "
                 \o (IF Truthy(diet_prefs) THEN Join(diet_prefs.v) ELSE "your preferences") \o "!",
               meals.val)
        ELSE IF AnyIn(message, {"calorie", "nutrition", "healthy", "protein"})
        THEN Response("message",
               "I can help you find nutritious meals! Would you like high-protein options, low-calorie meals, or something balanced?",
               meals.val)
        ELSE Response("suggestions", "Here are some meal suggestions for you!", meals.val)

\* _handle_class_questions(message, user_profile, context)
HandleClassQuestions(message, now) ==
    IF AnyIn(message, {"find", "available", "what classes", "show me"})
    THEN Response("suggestions", "Here are available classes you can join!",
                  GenerateClassSuggestions(now))
    ELSE Response("suggestions", "I can help you find classes! Here are some options:",
                  GenerateClassSuggestions(now))

\* _handle_plan_questions(message, user_profile, context)
HandlePlanQuestions(message, p, now) ==
    LET goal == ProfileGet(p, p.primaryGoal, "", "general fitness")
        time_prefs == ProfileGet(p, p.timePrefs, <<>>, <<"morning", "evening">>)
    IN  Response("suggestions",
          "Here's your personalized plan for today to help you reach your "
            \o (IF goal.k = "null" THEN "None" ELSE goal.v) \o " goal!",
          GenerateDailyPlanSuggestions(p, time_prefs, now))

\* _handle_nutrition_questions(message, user_profile, context)
HandleNutritionQuestions(message, p) ==
    LET meals == GenerateMealSuggestions(ProfileGet(p, p.dietPrefs, <<>>, <<>>),
                                         ProfileGet(p, p.primaryGoal, "", ""))
    IN  IF meals.exc # "none" THEN Raise(meals.exc)
        ELSE Response("message",
               "I can help you with nutrition! You can log meals by taking photos, and I'll estimate calories and macros. Would you like meal suggestions that match your dietary preferences?",
               meals.val)

\* _handle_time_questions(message, user_profile, context)
HandleTimeQuestions(message, p, context, now) ==
    LET time_prefs == ProfileGet(p, p.timePrefs, <<>>, <<>>)
    IN  IF InList("workout", context.topics) /\ Truthy(time_prefs)
        THEN LET first == GenerateWorkoutSuggestions(p, Val(<<time_prefs.v[1]>>), now)
             IN  IF first.exc # "none" THEN Raise(first.exc)
                 ELSE Response("message",
                        "Based on your preferences, " \o time_prefs.v[1]
                          \o " is a great time for workouts!",
                        first.val)
        ELSE Response("message",
               "I can help you schedule activities! What would you like to plan?", <<>>)

\* _handle_general_questions(message, user_profile, context)
HandleGeneralQuestions(message) ==
    IF AnyIn(message, {"can you", "what can you", "how can you", "do you"})
    THEN Response("message", "I can help you with: ... What would you like help with?", <<>>)
    ELSE IF Contains(message, "how") /\ (Contains(message, "log") \/ Contains(message, "meal"))
    THEN Response("message", "To log a meal, go to the Log page and take a photo of your food. I'll automatically estimate the calories and nutrition!", <<>>)
    ELSE IF Contains(message, "how") /\ Contains(message, "workout")
    THEN Response("message", "You can add workouts to your calendar, and I'll track them automatically. Or ask me to suggest a workout based on your goals!", <<>>)
    ELSE Response("message",
           "I may not have data for that yet, but I can help with workouts, meals, Duke Rec classes, daily plans, progress nudges. Which area should we focus on?",
           <<>>)

\* ------------------------------------------------------- intent cascade
GreetingWords  == {"hi", "hello", "hey", "how are you"}
WorkoutWords   == {"workout", "exercise", "training", "fitness", "gym"}
MealWords      == {"meal", "food", "eat", "dinner", "lunch", "breakfast", "hungry", "what should i eat"}
ClassWords     == {"class", "myrec", "schedule", "reserve", "available"}
PlanWords      == {"plan", "daily", "today", "schedule", "what should i do"}
ProgressWords  == {"progress", "goal", "how am i doing", "stats", "summary"}
NutritionWords == {"calorie", "calories", "nutrition", "protein", "carbs", "macro"}
TimeWords      == {"when", "what time", "schedule", "today", "tomorrow"}
QuestionStarts == {"how", "what", "why", "where", "can", "should", "do you"}

\* the cascade with the plan test ahead of the class test
IntentBranch_PlanBeforeClass(message) ==
    IF AnyIn(message, GreetingWords) THEN "greeting"
    ELSE IF AnyIn(message, WorkoutWords) THEN "workout"
    ELSE IF AnyIn(message, MealWords) THEN "meal"
    ELSE IF AnyIn(message, PlanWords) THEN "plan"
    ELSE IF AnyIn(message, ClassWords) THEN "class"
    ELSE IF AnyIn(message, ProgressWords) THEN "progress"
    ELSE IF AnyIn(message, NutritionWords) THEN "nutrition"
    ELSE IF AnyIn(message, TimeWords) THEN "time"
    ELSE IF \E q \in QuestionStarts : StartsWith(message, q) THEN "general"
    ELSE "default"

\* the cascade with the meal test ahead of the workout test
IntentBranch_MealBeforeWorkout(message) ==
    IF AnyIn(message, GreetingWords) THEN "greeting"
    ELSE IF AnyIn(message, MealWords) THEN "meal"
    ELSE IF AnyIn(message, WorkoutWords) THEN "workout"
    ELSE IF AnyIn(message, ClassWords) THEN "class"
    ELSE IF AnyIn(message, PlanWords) THEN "plan"
    ELSE IF AnyIn(message, ProgressWords) THEN "progress"
    ELSE IF AnyIn(message, NutritionWords) THEN "nutrition"
    ELSE IF AnyIn(message, TimeWords) THEN "time"
    ELSE IF \E q \in QuestionStarts : StartsWith(message, q) THEN "general"
    ELSE "default"

\* the branch of _understand_intent that returns, for a lower-cased, trimmed message
IntentBranch(message) ==
    IF AnyIn(message, GreetingWords) THEN "greeting"
    ELSE IF AnyIn(message, WorkoutWords) THEN "workout"
    ELSE IF AnyIn(message, MealWords) THEN "meal"
    ELSE IF AnyIn(message, ClassWords) THEN "class"
    ELSE IF AnyIn(message, PlanWords) THEN "plan"
    ELSE IF AnyIn(message, ProgressWords) THEN "progress"
    ELSE IF AnyIn(message, NutritionWords) THEN "nutrition"
    ELSE IF AnyIn(message, TimeWords) THEN "time"
    ELSE IF \E q \in QuestionStarts : StartsWith(message, q) THEN "general"
    ELSE "default"

\* _understand_intent(message, user_profile, context)
UnderstandIntent(message, p, context, now) ==
    LET b == IntentBranch(message)
    IN  CASE b = "greeting" ->
               Response("message", GetPersonalizedGreeting(p) \o "How can I help you today?", <<>>)
          [] b = "workout" -> HandleWorkoutQuestions(message, p, now)
          [] b = "meal" -> HandleMealQuestions(message, p)
          [] b = "class" -> HandleClassQuestions(message, now)
          [] b = "plan" -> HandlePlanQuestions(message, p, now)
          [] b = "progress" ->
               Response("message", "I can help you track your progress! Check out your weekly summary to see your workouts, calories burned, and achievements. Would you like me to suggest a workout to help you reach your goals?", <<>>)
          [] b = "nutrition" -> HandleNutritionQuestions(message, p)
          [] b = "time" -> HandleTimeQuestions(message, p, context, now)
          [] b = "general" -> HandleGeneralQuestions(message)
          [] OTHER ->
               Response("message", "I'm here to help you with workouts, meals, classes, and daily planning! ... What would you like help with?", <<>>)

\* ---------------------------------------------------- generative path
\* _summarize_survey_answers(context): entry.get(...) on each of answers[:6]
\* raises AttributeError when an entry is not a dict
SummarizeSurveyAnswersRaises(ctx) ==
    /\ ctx.surveyAnswers.k = "val"
    /\ \E i \in 1..Len(Take(ctx.surveyAnswers.v, 6)) : ctx.surveyAnswers.v[i] # "dict"

\* _summarize_duke_classes(context): entry.get(...) on each of items[:6]
SummarizeDukeClassesRaises(ctx) ==
    /\ ctx.dukeItems.k = "val"
    /\ \E i \in 1..Len(Take(ctx.dukeItems.v, 6)) : ctx.dukeItems.v[i] # "dict"

\* _build_user_prompt(...): "ok" or the exception it raises
BuildUserPrompt(ctx) ==
    IF SummarizeSurveyAnswersRaises(ctx) \/ SummarizeDukeClassesRaises(ctx)
    THEN "AttributeError" ELSE "ok"

WeekdayName(day) ==
    <<"Mon", "Tue", "Wed", "Thu", "Fri", "Sat", "Sun">>[(day % 7) + 1]

Pad2(n) == IF n < 10 THEN "0" \o ToString(n) ELSE ToString(n)

\* _format_time_label(iso_str); lstrip("0") leaves the weekday-first label as is
FormatTimeLabel(start) ==
    IF start.k # "val" THEN "any time today"
    ELSE \* datetime.strftime("%a %I:%M %p")
         WeekdayName(start.v[1]) \o " "
           \o Pad2(IF start.v[2] % 12 = 0 THEN 12 ELSE start.v[2] % 12)
           \o ":" \o Pad2(start.v[3])
           \o (IF start.v[2] < 12 THEN " AM" ELSE " PM")

\* _build_workout_detail(user_profile), for a profile without timeBudgetMin
\* and fitnessGoal (the request profiles below carry neither)
BuildWorkoutDetail(p) ==
    LET goal == Lower(IF Truthy(p.primaryGoal) THEN p.primaryGoal.v ELSE "fitness")
    IN  "~30 min: 5-min brisk walk warm-up; "
          \o (IF Contains(goal, "strength") \/ Contains(goal, "muscle")
              THEN "3x10 bodyweight squats; 3x12 push-ups or kneeling push-ups"
              ELSE IF Contains(goal, "lose") \/ Contains(goal, "fat")
              THEN "10-min light jog or bike at RPE 5/10; 3x12 alternating lunges"
              ELSE "3x12 glute bridges + 3x30s plank holds")
          \o "; 5-min full-body stretch"

\* preferred_start() inside _enrich_suggestion
PreferredStart(p, now) ==
    IF Truthy(p.timePrefs)
    THEN LET pref == p.timePrefs.v[1]
         IN  ReplaceHour(now, IF pref = "morning" THEN 7
                              ELSE IF pref = "afternoon" THEN 14
                              ELSE IF pref = "evening" THEN 18
                              ELSE now.hour)
    ELSE now

\* _enrich_suggestion(suggestion, user_profile) on a normalized suggestion
EnrichSuggestion(sg, p, now) ==
    LET schedulable == sg.kind \in {"workout", "class"}
        fill == schedulable /\ (sg.payload.startISO.k = "absent" \/ sg.payload.endISO.k = "absent")
        start == PreferredStart(p, now)
        duration == IF sg.kind = "workout" THEN 45 ELSE 60
    IN  [sg EXCEPT
           !.payload.startISO = IF fill /\ @.k = "absent" THEN Val(IsoFormat(start)) ELSE @,
           !.payload.endISO = IF fill /\ @.k = "absent"
                              THEN Val(IsoFormat(AddMinutes(start, duration))) ELSE @,
           !.desc = IF sg.kind = "workout" /\ Len(@) = 0 THEN BuildWorkoutDetail(p) ELSE @]

\* the dict built from one raw suggestion at 1-based position idx
NormalizedSuggestion(raw, idx) ==
    [id |-> IF Truthy(raw.id) THEN raw.id.v ELSE "s" \o ToString(idx),
     kind |-> IF raw.kind.k = "val" /\ raw.kind.v \in {"workout", "meal", "class"}
              THEN raw.kind.v ELSE "workout",
     title |-> IF Truthy(raw.title) THEN raw.title.v ELSE "Try This",
     desc |-> IF Truthy(raw.desc) THEN raw.desc.v ELSE "",
     cta |-> "Learn More",
     payload |-> [startISO |-> raw.start, endISO |-> raw.end, location |-> raw.location]]

RECURSIVE NormalizeSuggestions(_, _, _, _)
\* the loop of _normalize_llm_payload over raw_suggestions, from position idx
NormalizeSuggestions(raws, idx, p, now) ==
    IF idx > Len(raws) THEN <<>>
    ELSE (IF raws[idx].isDict
          THEN << EnrichSuggestion(NormalizedSuggestion(raws[idx], idx), p, now) >>
          ELSE <<>>)
         \o NormalizeSuggestions(raws, idx + 1, p, now)

\* one line of _compose_text_from_suggestions (the bullet separator of the
\* detail parts is written " - ")
SuggestionLine(sg) ==
    LET start_label == FormatTimeLabel(sg.payload.startISO)
        detail == (IF start_label # "any time today" THEN <<start_label>> ELSE <<>>)
                  \o (IF Truthy(sg.payload.location) THEN <<sg.payload.location.v>> ELSE <<>>)
    IN  "- " \o sg.title
          \o (IF Len(detail) = 0 THEN ""
              ELSE IF Len(detail) = 1 THEN " (" \o detail[1] \o ")"
              ELSE " (" \o detail[1] \o " - " \o detail[2] \o ")")
          \o (IF Len(sg.desc) > 0 THEN ": " \o sg.desc ELSE "")

RECURSIVE SuggestionLines(_)
SuggestionLines(sgs) ==
    IF Len(sgs) = 0 THEN "" ELSE SuggestionLine(sgs[1]) \o "\n" \o SuggestionLines(Tail(sgs))

\* _compose_text_from_suggestions with a loop that stops after one suggestion
ComposeTextFromSuggestions_FirstOnly(intro, sgs) ==
    (IF Len(Strip(intro)) > 0 THEN Strip(intro) \o "\n" ELSE "")
      \o SuggestionLines(Take(sgs, 1))
      \o "Need tweaks or a different option? Just let me know."

\* _compose_text_from_suggestions(intro, suggestions)
ComposeTextFromSuggestions(intro, sgs) ==
    (IF Len(Strip(intro)) > 0 THEN Strip(intro) \o "\n" ELSE "")
      \o SuggestionLines(sgs)
      \o "Need tweaks or a different option? Just let me know."

\* the value Python carries for a None `type`
NoneType == "<None>"

\* _normalize_llm_payload without the `chat_type == "suggestions" and not
\* suggestions` downgrade
NormalizeLLMPayload_KeepType(payload, p, now) ==
    IF ~payload.isDict THEN Raise("AttributeError")                \* list.get
    ELSE
      LET chat_type == IF payload.type.k = "absent" THEN "message"
                       ELSE IF payload.type.k = "null" THEN NoneType
                       ELSE payload.type.v
          message == IF payload.message.k \in {"val", "int"} /\ Len(payload.message.v) > 0
                     THEN payload.message.v
                     ELSE "I'm here to help keep you on track today."
          raws == IF payload.suggestions.k = "val" THEN payload.suggestions.v ELSE <<>>
          suggestions == NormalizeSuggestions(raws, 1, p, now)
      IN  IF \E i \in 1..Len(raws) : raws[i].isDict /\ raws[i].payloadKind = "str"
          THEN Raise("AttributeError")                             \* str.setdefault
          ELSE IF Len(suggestions) > 0
          THEN IF payload.message.k = "int" THEN Raise("AttributeError")   \* int.strip
               ELSE Response("message", ComposeTextFromSuggestions(message, suggestions), <<>>)
          ELSE Response(chat_type, message, <<>>)

\* _normalize_llm_payload(payload, user_profile): the response dict, or the
\* exception it raises
NormalizeLLMPayload(payload, p, now) ==
    IF ~payload.isDict THEN Raise("AttributeError")                \* list.get
    ELSE
      LET chat_type == IF payload.type.k = "absent" THEN "message"
                       ELSE IF payload.type.k = "null" THEN NoneType
                       ELSE payload.type.v
          message == IF payload.message.k \in {"val", "int"} /\ Len(payload.message.v) > 0
                     THEN payload.message.v
                     ELSE "I'm here to help keep you on track today."
          raws == IF payload.suggestions.k = "val" THEN payload.suggestions.v ELSE <<>>
          suggestions == NormalizeSuggestions(raws, 1, p, now)
      IN  IF \E i \in 1..Len(raws) : raws[i].isDict /\ raws[i].payloadKind = "str"
          THEN Raise("AttributeError")                             \* str.setdefault
          ELSE IF Len(suggestions) > 0
          THEN IF payload.message.k = "int" THEN Raise("AttributeError")   \* int.strip
               ELSE Response("message", ComposeTextFromSuggestions(message, suggestions), <<>>)
          ELSE Response(IF chat_type = "suggestions" THEN "message" ELSE chat_type,
                        message, <<>>)

\* the part of _call_llm after the request was sent: the normalized response,
\* or None (modelled as type "none") when the call raised, the content was
\* empty, or parsing / normalizing raised inside the try block
NoneResult == [status |-> 0, type |-> "none", message |-> "", suggestions |-> <<>>, error |-> "none"]

\* _call_llm without its `if not self.client` early return
CallLLMEntry_NoClientCheck(hasClient, ctx) ==
    IF BuildUserPrompt(ctx) # "ok" THEN BuildUserPrompt(ctx) ELSE "invoke"

\* the part of _call_llm before the request is sent: "none" when there is no
\* client, the exception raised while the prompt is built (outside the try
\* block), or "invoke"
CallLLMEntry(hasClient, ctx) ==
    IF ~hasClient THEN "none"
    ELSE IF BuildUserPrompt(ctx) # "ok" THEN BuildUserPrompt(ctx)
    ELSE "invoke"

CallLLMResult(outcome, p, now) ==
    IF outcome.kind # "json" THEN NoneResult
    ELSE LET normalized == NormalizeLLMPayload(outcome.payload, p, now)
         IN  IF normalized.status = 500 THEN NoneResult ELSE normalized

\* --------------------------------------------------------- chat router
\* _fetch_duke_rec_classes_if_requested(message): "None" when the message has
\* no class keyword; otherwise the loop over the (never empty) date list calls
\* provider.search with the keywords date and time_window, which Python
\* rejects with TypeError before the coroutine is created when one is not
\* among the parameters date, location, class_type of MyRecProvider.search
FetchDukeRecClassesIfRequested(message) ==
    IF ~AnyIn(Lower(message), {"class", "myrec", "duke rec"}) THEN "None"
    ELSE IF ~({"date", "time_window"} \subseteq {"date", "location", "class_type"}) THEN "TypeError"
    ELSE "payload"

\* ------------------------------------------------------- calendar router
RECURSIVE Remove(_, _)
\* str.replace(w, ""): s without the occurrences of w, found left to right
Remove(s, w) ==
    IF Len(s) = 0 THEN ""
    ELSE IF StartsWith(s, w) THEN Remove(SubSeq(s, Len(w) + 1, Len(s)), w)
    ELSE CharAt(s, 1) \o Remove(SubSeq(s, 2, Len(s)), w)

\* add_event(event, authorization): the status of the response and whether
\* GoogleCalendarService.add_event was called. The HTTPException(401) raised
\* for a missing token is raised inside the try block, whose
\* `except Exception` turns it into HTTPException(500, detail=str(e))
AddEvent(authorization) ==
    LET token == IF Truthy(authorization) THEN Val(Remove(authorization.v, "Bearer "))
                 ELSE Null("")
    IN  IF ~Truthy(token) THEN [status |-> 500, invoked |-> FALSE]
        ELSE [status |-> 200, invoked |-> TRUE]

\* -------------------------------------------------------------- calendar
\* datetime.date(y, m, d)
Date(y, m, d) == [year |-> y, month |-> m, day |-> d]

\* Python None where a date is expected
NoDate == Date(0, 0, 0)

DaysInMonth(y, m) ==
    IF m = 2 THEN (IF (y % 4 = 0 /\ y % 100 # 0) \/ y % 400 = 0 THEN 29 ELSE 28)
    ELSE IF m \in {4, 6, 9, 11} THEN 30 ELSE 31

\* datetime(y, m, d) does not raise ValueError
ValidDate(y, m, d) == y \in 1..9999 /\ m \in 1..12 /\ d \in 1..DaysInMonth(y, m)

RECURSIVE AddDays(_, _)
\* date + timedelta(days=n), n >= 0
AddDays(dt, n) ==
    IF n = 0 THEN dt
    ELSE AddDays(IF dt.day < DaysInMonth(dt.year, dt.month) THEN [dt EXCEPT !.day = dt.day + 1]
                 ELSE IF dt.month < 12 THEN Date(dt.year, dt.month + 1, 1)
                 ELSE Date(dt.year + 1, 1, 1),
                 n - 1)

RECURSIVE DaysBeforeMonth(_, _)
\* days of year y before the first of month m
DaysBeforeMonth(y, m) ==
    IF m = 1 THEN 0 ELSE DaysBeforeMonth(y, m - 1) + DaysInMonth(y, m - 1)

\* date.toordinal()
ToOrdinal(dt) ==
    LET y == dt.year - 1
    IN  365 * y + (y \div 4) - (y \div 100) + (y \div 400)
          + DaysBeforeMonth(dt.year, dt.month) + dt.day

\* date.weekday(): Monday is 0
Weekday(dt) == (ToOrdinal(dt) + 6) % 7

\* datetime.now().date(): the clock's day 0 is Monday 2024-12-30
Today(now) == AddDays(Date(2024, 12, 30), now.day)

\* date.strftime("%a %b %d")
StrfDate(dt) ==
    WeekdayName(Weekday(dt)) \o " "
      \o <<"Jan", "Feb", "Mar", "Apr", "May", "Jun", "Jul", "Aug", "Sep", "Oct", "Nov",
           "Dec">>[dt.month]
      \o " " \o Pad2(dt.day)

\* a date written as YYYY-M-D, month and day zero-padded or not
\* (date.isoformat() when both are padded)
FormatYMD(dt, padM, padD) ==
    ToString(dt.year) \o "-" \o (IF padM THEN Pad2(dt.month) ELSE ToString(dt.month))
      \o "-" \o (IF padD THEN Pad2(dt.day) ELSE ToString(dt.day))

\* ------------------------------------------------------- temporal parser
Digits == "0123456789"

\* s[i] exists and matches \d
DigitAt(s, i) == i \in 1..Len(s) /\ Contains(Digits, CharAt(s, i))

\* s[i] exists and is the character c
IsAt(s, i, c) == i \in 1..Len(s) /\ CharAt(s, i) = c

\* the word w occurs in s at position i
StartsAt(s, i, w) ==
    i >= 1 /\ i + Len(w) - 1 <= Len(s) /\ SubSeq(s, i, i + Len(w) - 1) = w

RECURSIVE ParseInt(_)
\* int(s) for a string of digits
ParseInt(s) ==
    IF Len(s) = 0 THEN 0
    ELSE ParseInt(SubSeq(s, 1, Len(s) - 1)) * 10
           + ((CHOOSE i \in 1..10 : CharAt(Digits, i) = CharAt(s, Len(s))) - 1)

\* greedy \d{1,2} at i, given that s[i] is a digit and what must follow
Greedy12(s, i) == IF DigitAt(s, i + 1) THEN 2 ELSE 1

\* 20\d{2}-\d{1,2}-\d{1,2} matches at i
IsoMatchAt(s, i) ==
    /\ IsAt(s, i, "2") /\ IsAt(s, i + 1, "0") /\ DigitAt(s, i + 2) /\ DigitAt(s, i + 3)
    /\ IsAt(s, i + 4, "-") /\ DigitAt(s, i + 5)
    /\ LET mlen == Greedy12(s, i + 5)
       IN  IsAt(s, i + 5 + mlen, "-") /\ DigitAt(s, i + 6 + mlen)

\* group(1) of the ISO match at i, as its three fields
IsoGroup(s, i) ==
    LET mlen == Greedy12(s, i + 5)
        dlen == Greedy12(s, i + 6 + mlen)
    IN  [y |-> SubSeq(s, i, i + 3), m |-> SubSeq(s, i + 5, i + 4 + mlen),
         d |-> SubSeq(s, i + 6 + mlen, i + 5 + mlen + dlen)]

\* datetime.fromisoformat(text).date() for a text matched by the ISO pattern:
\* the date format it accepts has a four-digit year and two-digit month and
\* day; any other width, and any impossible date, is a ValueError (NoDate)
FromIsoFormat(g) ==
    IF Len(g.m) = 2 /\ Len(g.d) = 2
       /\ ValidDate(ParseInt(g.y), ParseInt(g.m), ParseInt(g.d))
    THEN Date(ParseInt(g.y), ParseInt(g.m), ParseInt(g.d))
    ELSE NoDate

\* length of the first \d{1,2} of the slash pattern at i, 0 when it fails
SlashMonthLen(s, i) ==
    IF DigitAt(s, i) /\ DigitAt(s, i + 1) /\ IsAt(s, i + 2, "/") /\ DigitAt(s, i + 3) THEN 2
    ELSE IF DigitAt(s, i) /\ IsAt(s, i + 1, "/") /\ DigitAt(s, i + 2) THEN 1
    ELSE 0

\* number of digits \d{2,4} takes at i (greedy), 0 when fewer than two
Greedy24(s, i) ==
    IF ~(DigitAt(s, i) /\ DigitAt(s, i + 1)) THEN 0
    ELSE IF ~DigitAt(s, i + 2) THEN 2
    ELSE IF ~DigitAt(s, i + 3) THEN 3
    ELSE 4

\* group(1).split("/") of the slash match at i; y is "" with two parts
SlashGroup(s, i) ==
    LET mlen == SlashMonthLen(s, i)
        dlen == Greedy12(s, i + mlen + 1)
        e    == i + mlen + 1 + dlen
        ylen == IF IsAt(s, e, "/") THEN Greedy24(s, e + 1) ELSE 0
    IN  [m |-> SubSeq(s, i, i + mlen - 1), d |-> SubSeq(s, i + mlen + 1, e - 1),
         y |-> SubSeq(s, e + 1, e + ylen)]

MonthNames ==
    <<"january", "february", "march", "april", "may", "june", "july", "august",
      "september", "october", "november", "december">>

\* month_map[name] of the month name that starts at s[i], 0 when none does
MonthAt(s, i) ==
    IF \E k \in 1..12 : StartsAt(s, i, MonthNames[k])
    THEN CHOOSE k \in 1..12 : StartsAt(s, i, MonthNames[k])
    ELSE 0

RECURSIVE SkipSpaces(_, _)
\* the first position from i on that holds no whitespace
SkipSpaces(s, i) ==
    IF i \in 1..Len(s) /\ IsSpace(CharAt(s, i)) THEN SkipSpaces(s, i + 1) ELSE i

\* (january|...|december)\s+(\d{1,2})(?:,\s*(\d{4}))? matches at i
MonthMatchAt(s, i) ==
    /\ MonthAt(s, i) > 0
    /\ LET e == i + Len(MonthNames[MonthAt(s, i)])
       IN  SkipSpaces(s, e) > e /\ DigitAt(s, SkipSpaces(s, e))

\* the pattern of the given kind matches at i: "iso" is 20\d{2}-\d{1,2}-\d{1,2},
\* "slash" is \d{1,2}/\d{1,2}(?:/\d{2,4})?, "month" the month-name pattern
MatchAt(kind, s, i) ==
    CASE kind = "iso" -> IsoMatchAt(s, i)
      [] kind = "slash" -> SlashMonthLen(s, i) > 0
      [] kind = "month" -> MonthMatchAt(s, i)

\* re.search: the leftmost position at which the pattern matches, 0 if none
FirstIndex(kind, s) ==
    IF \E i \in 1..Len(s) : MatchAt(kind, s, i)
    THEN CHOOSE i \in 1..Len(s) : MatchAt(kind, s, i) /\ \A j \in 1..(i - 1) : ~MatchAt(kind, s, j)
    ELSE 0

\* groups 2 and 3 of the month-name match at i; y is "" without a year
MonthGroup(s, i) ==
    LET ds   == SkipSpaces(s, i + Len(MonthNames[MonthAt(s, i)]))
        e    == ds + Greedy12(s, ds)
        ys   == SkipSpaces(s, e + 1)
        hasY == IsAt(s, e, ",") /\ Greedy24(s, ys) = 4
    IN  [m |-> MonthAt(s, i), d |-> SubSeq(s, ds, e - 1),
         y |-> IF hasY THEN SubSeq(s, ys, ys + 3) ELSE ""]

\* datetime(year, month, day).date(), NoDate on ValueError
MakeDate(y, m, d) == IF ValidDate(y, m, d) THEN Date(y, m, d) ELSE NoDate

\* the third step of _parse_specific_date: the month-name pattern
ParseMonthNameDate(message, now) ==
    LET i == FirstIndex("month", message)
        g == MonthGroup(message, i)
    IN  IF i = 0 THEN NoDate
        ELSE MakeDate(IF g.y # "" THEN ParseInt(g.y) ELSE Today(now).year,
                      g.m, ParseInt(g.d))

\* the second step of _parse_specific_date: the slash pattern, then the third
ParseSlashDate(message, now) ==
    LET i    == FirstIndex("slash", message)
        g    == SlashGroup(message, i)
        made == MakeDate(IF g.y # "" THEN ParseInt(g.y) ELSE Today(now).year,
                         ParseInt(g.m), ParseInt(g.d))
    IN  IF i # 0 /\ made # NoDate THEN made ELSE ParseMonthNameDate(message, now)

\* _parse_specific_date(message); NoDate is None
ParseSpecificDate(message, now) ==
    LET i == FirstIndex("iso", message)
    IN  IF i # 0 /\ FromIsoFormat(IsoGroup(message, i)) # NoDate
        THEN FromIsoFormat(IsoGroup(message, i))
        ELSE ParseSlashDate(message, now)

\* _determine_class_window(message): the tests run in the order of the code,
\* "tomorrow", "week", "weekend"
DetermineClassWindow(message, now) ==
    IF Contains(message, "tomorrow")
    THEN [label |-> "tomorrow", offset_days |-> 1, days |-> 1]
    ELSE IF Contains(message, "week")
    THEN [label |-> "this week", offset_days |-> 0, days |-> 7]
    ELSE IF Contains(message, "weekend")
    THEN [label |-> "this weekend", offset_days |-> (5 - Weekday(Today(now))) % 7, days |-> 2]
    ELSE [label |-> "today", offset_days |-> 0, days |-> 1]

\* the mapping of _parse_time_window, in insertion order
TimeWindowTable ==
    << [keyword |-> "morning", window |-> <<5, 12>>],
       [keyword |-> "afternoon", window |-> <<12, 17>>],
       [keyword |-> "evening", window |-> <<17, 22>>],
       [keyword |-> "night", window |-> <<20, 24>>] >>

\* Python None where a (start, end) window is expected
NoWindow == <<>>

ParseTimeWindow_LastKeyword(message) ==
    LET hits == { i \in 1..Len(TimeWindowTable) : Contains(message, TimeWindowTable[i].keyword) }
    IN  IF hits = {} THEN NoWindow
        ELSE TimeWindowTable[CHOOSE i \in hits : \A j \in hits : j <= i].window

\* _parse_time_window(message): the window of the first table entry whose
\* keyword occurs in the message
ParseTimeWindow(message) ==
    LET hits == { i \in 1..Len(TimeWindowTable) : Contains(message, TimeWindowTable[i].keyword) }
    IN  IF hits = {} THEN NoWindow
        ELSE TimeWindowTable[CHOOSE i \in hits : \A j \in hits : i <= j].window

\* _time_window_label(window)
TimeWindowLabel(window) ==
    IF \E i \in 1..Len(TimeWindowTable) : TimeWindowTable[i].window = window
    THEN TimeWindowTable[CHOOSE i \in 1..Len(TimeWindowTable) :
                            TimeWindowTable[i].window = window].keyword
    ELSE ToString(window[1]) \o ":00-" \o ToString(window[2]) \o ":00"

\* [start + timedelta(days=i) for i in range(n)]
DateRange(start, n) == [i \in 1..n |-> AddDays(start, i - 1)]

\* _resolve_class_query(message)
ResolveClassQuery(message, now) ==
    LET custom_date == ParseSpecificDate(message, now)
        time_window == ParseTimeWindow(message)
        base        == DetermineClassWindow(message, now)
        suffix      == IF time_window # NoWindow
                       THEN " (" \o TimeWindowLabel(time_window) \o ")" ELSE ""
    IN  IF custom_date # NoDate
        THEN [label |-> "on " \o StrfDate(custom_date) \o suffix,
              dates |-> <<custom_date>>, time_window |-> time_window]
        ELSE [label |-> base.label \o suffix,
              dates |-> DateRange(AddDays(Today(now), base.offset_days), base.days),
              time_window |-> time_window]

\* ------------------------------------------------------ schedule provider
\* a datetime with its calendar date, as the schedule records carry it
Stamp(date, h, m) == [date |-> date, hour |-> h, minute |-> m]

NoStamp == Stamp(NoDate, 0, 0)

\* item.get(key, "") where a start or end time is expected: the value, the
\* default "" of a missing key, or None for a null value
Time(entry) ==
    IF entry.k = "val" THEN entry
    ELSE IF entry.k = "absent" THEN [k |-> "empty", v |-> NoStamp]
    ELSE Null(NoStamp)

\* datetime.fromisoformat(text) for a date query parameter written YYYY-MM-DD;
\* NoDate stands for ValueError
ParseIsoDate(text) ==
    IF /\ Len(text) = 10
       /\ \A i \in {1, 2, 3, 4, 6, 7, 9, 10} : DigitAt(text, i)
       /\ IsAt(text, 5, "-") /\ IsAt(text, 8, "-")
    THEN MakeDate(ParseInt(SubSeq(text, 1, 4)), ParseInt(SubSeq(text, 6, 7)),
                  ParseInt(SubSeq(text, 9, 10)))
    ELSE NoDate

MockClassTypes ==
    <<"HIIT Training", "Yoga Flow", "Spin Class", "Strength Training", "Pilates",
      "Zumba", "Barre", "Bootcamp">>

MockLocations ==
    <<"Wilson Recreation Center", "Brodie Recreation Center", "Card Gym",
      "Cameron Indoor Stadium">>

\* number of records _generate_mock_classes builds
MockCount == 8

\* _generate_mock_classes(date, location, class_type); draw holds what the
\* random.choice and random.randint calls of the eight iterations return
GenerateMockClasses(date, location, class_type, draw, now) ==
    LET parsed    == IF Truthy(date) THEN ParseIsoDate(date.v) ELSE NoDate
        base_date == IF parsed # NoDate THEN parsed ELSE Today(now)
    IN  [ n \in 1..MockCount |->
            [id |-> "class_" \o ToString(n - 1),
             title |-> MockClassTypes[draw.title[n]],
             start |-> Val(Stamp(base_date, 7 + (n - 1), IF (n - 1) % 2 = 0 THEN 0 ELSE 30)),
             end |-> Val(Stamp(base_date, 8 + (n - 1), IF (n - 1) % 2 = 0 THEN 0 ELSE 30)),
             location |-> IF Truthy(location) THEN location.v
                          ELSE MockLocations[draw.location[n]],
             spotsOpen |-> draw.spots[n],
             provider |-> "myrec"] ]

\* item.get(key, default) for a text field; a null value is None
TextOr(entry, default) ==
    IF entry.k = "absent" THEN default ELSE IF entry.k = "null" THEN NoneType ELSE entry.v

RECURSIVE ParseApiItems(_)
\* the loop of _parse_api_response: an item that is no dict raises inside the
\* try and is skipped
ParseApiItems(items) ==
    IF Len(items) = 0 THEN <<>>
    ELSE (IF ~items[1].isDict THEN <<>>
          ELSE << [id |-> IF items[1].Id.k = "val" THEN items[1].Id.v
                          ELSE IF items[1].Id.k = "null" THEN "None" ELSE "",
                   title |-> TextOr(items[1].Title, "Fitness Class"),
                   start |-> Time(items[1].Start),
                   end |-> Time(items[1].End),
                   location |-> TextOr(items[1].Location, "Duke Recreation"),
                   spotsOpen |-> IF items[1].SpotsOpen.k = "absent" THEN 0
                                 ELSE items[1].SpotsOpen.v,
                   provider |-> "myrec"] >>)
         \o ParseApiItems(Tail(items))

\* _parse_api_response(data)
ParseApiResponse(data) == IF data.isList THEN ParseApiItems(data.items) ELSE <<>>

\* MyRecProvider.search(date, location, class_type): one GET to the schedule
\* API; its records are returned as parsed when there are any, the mock
\* records otherwise (request failed, status not 200, nothing parsed)
Search(date, location, class_type, api, draw, now) ==
    IF api.kind = "ok" /\ Len(ParseApiResponse(api.data)) > 0
    THEN ParseApiResponse(api.data)
    ELSE GenerateMockClasses(date, location, class_type, draw, now)

\* -------------------------------------------------- class replies of the chat
RECURSIVE SearchEach(_, _, _, _)
\* the loop of _fetch_duke_rec_classes_if_requested over timeframe["dates"]:
\* items.extend(day_classes) with the records provider.search returns for
\* day.isoformat()
SearchEach(dates, api, draw, now) ==
    IF Len(dates) = 0 THEN <<>>
    ELSE Search(Val(FormatYMD(dates[1], TRUE, TRUE)), Absent(""), Absent(""), api, draw, now)
         \o SearchEach(Tail(dates), api, draw, now)

\* the payload _fetch_duke_rec_classes_if_requested builds from the records
\* of the searched dates: shuffled, at most 20 of them. random.shuffle(items)
\* is taken for three of the orders it can produce; the items are runs of
\* equally many records, one run per searched date, and "dealt" takes the
\* first record of every date, then the second of every date, ...
ClassesPayload(timeframe, api, draw, order, now) ==
    LET items == SearchEach(timeframe.dates, api, draw, now)
        days  == Len(timeframe.dates)
        per   == Len(items) \div days
        shuffled ==
          IF order = "kept" THEN items
          ELSE IF order = "reversed" THEN [i \in 1..Len(items) |-> items[Len(items) + 1 - i]]
          ELSE [i \in 1..Len(items) |-> items[((i - 1) % days) * per + ((i - 1) \div days) + 1]]
    IN  [timeframe |-> timeframe.label, items |-> Take(shuffled, 20)]

\* _build_class_response(payload): one suggestion for each of the first four
\* items, its id copied from the record (every record of the provider has the
\* key "id"). Suggestion(title=None) is rejected by the model's validation.
\* The separators of desc are written " - "
BuildClassResponse(payload) ==
    LET items == Take(payload.items, 4)
        \* strftime("%I:%M %p").lstrip("0")
        ClockLabel(stamp) ==
          ToString(IF stamp.hour % 12 = 0 THEN 12 ELSE stamp.hour % 12) \o ":"
            \o Pad2(stamp.minute) \o (IF stamp.hour < 12 THEN " AM" ELSE " PM")
        suggestions ==
          [ idx \in 1..Len(items) |->
              LET cls == items[idx]
                  date_label == IF cls.start.k = "val" THEN StrfDate(cls.start.v.date)
                                ELSE "Date TBA"
                  start_label == IF cls.start.k = "val" THEN ClockLabel(cls.start.v)
                                 ELSE "Time TBA"
                  time_label == IF cls.end.k = "val"
                                THEN start_label \o " - " \o ClockLabel(cls.end.v)
                                ELSE start_label
              IN  [id |-> cls.id,
                   kind |-> "class",
                   title |-> cls.title,
                   desc |-> date_label \o " - " \o time_label \o " at "
                              \o (IF cls.location = NoneType THEN "None" ELSE cls.location),
                   cta |-> "Add to Calendar",
                   payload |-> [startISO |-> cls.start, endISO |-> cls.end,
                                location |-> cls.location]] ]
    IN  IF \E idx \in 1..Len(items) : items[idx].title = NoneType
        THEN Raise("ValidationError")
        ELSE IF Len(suggestions) > 0
        THEN Response("suggestions",
                      "Here are Duke Rec classes available " \o payload.timeframe
                        \o ". Need a different date or time window? Ask something like 'classes on 2025-11-10 evening'.",
                      suggestions)
        ELSE Response("suggestions",
                      "I couldn't find Duke Rec classes for that timeframe. Try asking with a format like 'classes on 2025-11-10 morning'.",
                      <<>>)

\* ------------------------------------------------------------ request inputs
NoProfile == [present |-> FALSE, other |-> FALSE, name |-> Absent(""),
              primaryGoal |-> Absent(""), dietPrefs |-> Absent(<<>>), timePrefs |-> Absent(<<>>)]

Profiles ==
    { NoProfile,
      [NoProfile EXCEPT !.present = TRUE],
      [NoProfile EXCEPT !.present = TRUE, !.other = TRUE],
      [present |-> TRUE, other |-> TRUE, name |-> Val("Sam"),
       primaryGoal |-> Val("Build Strength"), dietPrefs |-> Val(<<"Vegetarian">>),
       timePrefs |-> Val(<<"morning", "evening">>)],
      [present |-> TRUE, other |-> FALSE, name |-> Absent(""),
       primaryGoal |-> Val("cardio endurance"), dietPrefs |-> Val(<<>>),
       timePrefs |-> Val(<<"afternoon", "evening", "morning">>)],
      [present |-> TRUE, other |-> FALSE, name |-> Val("Ana"),
       primaryGoal |-> Val(""), dietPrefs |-> Val(<<"Keto", "Vegan">>),
       timePrefs |-> Val(<<>>)],
      [present |-> TRUE, other |-> FALSE, name |-> Null(""),
       primaryGoal |-> Null(""), dietPrefs |-> Absent(<<>>),
       timePrefs |-> Val(<<"morning">>)],
      [present |-> TRUE, other |-> FALSE, name |-> Absent(""),
       primaryGoal |-> Val("General fitness"), dietPrefs |-> Null(<<>>),
       timePrefs |-> Null(<<>>)] }

Messages ==
    { "", "ok", "hi", "  Workout ", "what workout should i do", "when should i workout",
      "meal and workout", "hello meal workout", "lunch", "WHAT Should I Eat",
      "healthy dinner", "reserve a spot", "find me a class", "plan my day",
      "my progress", "protein macros", "my schedule", "when tomorrow", "can you help", "how do i log",
      "a good time for it" }

Turn(role, content) == [role |-> role, content |-> content]

Histories ==
    { <<>>,
      << Turn("user", "I did a Workout"), Turn("assistant", "Nice") >>,
      << Turn("user", "meal"), Turn("assistant", "ok"), Turn("user", "ok"),
         Turn("assistant", ""), Turn("user", "my schedule"), Turn("assistant", "ok") >> }

NoContext == [surveyAnswers |-> Absent(<<>>), dukeItems |-> Absent(<<>>)]

Contexts ==
    { NoContext,
      [NoContext EXCEPT !.surveyAnswers = Val(<<"dict", "dict">>)],
      [NoContext EXCEPT !.surveyAnswers = Val(<<"dict", "str">>)],
      [NoContext EXCEPT !.surveyAnswers =
          Val(<<"dict", "dict", "dict", "dict", "dict", "dict", "str">>)],
      [NoContext EXCEPT !.dukeItems = Val(<<"str">>)] }

Nows == { DateTime(d, 9, 30) : d \in 0..MaxDay } \cup { DateTime(0, 23, 40) }

RawSuggestion(kind, title, start, end) ==
    [isDict |-> TRUE, id |-> Absent(""), kind |-> kind, title |-> title, desc |-> Absent(""),
     payloadKind |-> "dict", start |-> start, end |-> end, location |-> Absent("")]

Payload(type, message, suggestions) ==
    [isDict |-> TRUE, type |-> type, message |-> message, suggestions |-> suggestions]

\* what the generative collaborator can answer to one request
Outcomes ==
    { [kind |-> k, payload |-> Payload(Absent(""), Absent(""), Absent(<<>>))]
        : k \in {"exception", "no_choices", "empty_content", "non_json"} }
    \cup
    { [kind |-> "json", payload |-> pl] : pl \in
        { [Payload(Absent(""), Absent(""), Absent(<<>>)) EXCEPT !.isDict = FALSE],
          Payload(Val("message"), Val("Keep going!"), Absent(<<>>)),
          Payload(Val("chat"), Val("Keep going!"), Absent(<<>>)),
          Payload(Null(""), Val("Keep going!"), Val(<<>>)),
          Payload(Val("suggestions"), Val("Try these"), Val(<<>>)),
          Payload(Absent(""), Null(""), Null(<<>>)),
          Payload(Val("suggestions"), Val(" Try these "),
                  Val(<< RawSuggestion(Val("yoga"), Val("Yoga Flow"), Absent(<<>>), Absent(<<>>)),
                         [RawSuggestion(Absent(""), Absent(""), Absent(<<>>), Absent(<<>>)) EXCEPT !.isDict = FALSE],
                         RawSuggestion(Val("meal"), Absent(""), Absent(<<>>), Absent(<<>>)) >>)),
          Payload(Val("message"), Absent(""),
                  Val(<< RawSuggestion(Val("class"), Val("Spin"), Val(<<0, 19, 0>>), Absent(<<>>)) >>)),
          Payload(Val("message"), [k |-> "int", v |-> "5"],
                  Val(<< RawSuggestion(Val("class"), Val("Spin"), Val(<<0, 19, 0>>), Absent(<<>>)) >>)),
          Payload(Val("suggestions"), Val("Try these"),
                  Val(<< [RawSuggestion(Val("workout"), Val("Run"), Absent(<<>>), Absent(<<>>))
                            EXCEPT !.payloadKind = "str"] >>)) } }

\* dates written into the messages given to the temporal parser
WrittenDates ==
    { Date(y, m, d) : y \in {2000, 2024, 2099}, m \in {1, 2, 9, 10, 12}, d \in {1, 9, 10, 28, 29, 30, 31} }

\* lowered class questions that carry one date-shaped token YYYY-M-D
YMDMessages ==
    { "classes on " \o FormatYMD(dt, padM, padD) :
        dt \in WrittenDates, padM \in BOOLEAN, padD \in BOOLEAN }

\* lowered class questions given to _resolve_class_query and its helpers
ClassMessages ==
    { "find me a class", "classes tomorrow evening", "class this weekend",
      "classes this week", "weekend class tomorrow", "myrec tomorrow morning",
      "evening or morning class", "class tonight", "afternoon class next week",
      "duke rec at night", "class on 11/10", "class 11/10/2025", "class 2/30",
      "class 13/1 or december 5", "class 1/2/25", "class on november 12",
      "class on december 31, 2025 evening", "class on february 30",
      "classes on 2025-13-01", "classes on 2025-13-01 or 12/5 morning",
      "class 2025-11-105", "class maybe 5", "class 2025-11-10 tomorrow",
      "class 2025-1-5 or 12/5" }

\* one element of the JSON list the schedule API answers with
ApiItem(id, title, start, end, location) ==
    [isDict |-> TRUE, Id |-> id, Title |-> title, Start |-> start, End |-> end,
     Location |-> location, SpotsOpen |-> Absent(0)]

\* what the GET to the schedule API can lead to: an exception (no network,
\* timeout), a status other than 200, a 200 whose JSON is no list, a 200 with
\* a list of items
ApiOutcomes ==
    { [kind |-> k, data |-> [isList |-> FALSE, items |-> <<>>]] : k \in {"error", "status", "ok"} }
    \cup { [kind |-> "ok", data |-> [isList |-> TRUE, items |->
         << ApiItem(Val("7"), Val("Yoga Flow"), Val(Stamp(Date(2025, 11, 10), 18, 0)),
                    Val(Stamp(Date(2025, 11, 10), 19, 0)), Val("Wilson Recreation Center")),
            [ApiItem(Absent(""), Absent(""), Absent(NoStamp), Absent(NoStamp), Absent(""))
               EXCEPT !.isDict = FALSE],
            ApiItem(Null(""), Absent(""), Absent(NoStamp), Null(NoStamp), Absent("")),
            ApiItem(Val("4"), Val("Spin Class"), Val(Stamp(Date(2025, 11, 11), 9, 30)),
                    Val(Stamp(Date(2025, 11, 11), 10, 30)), Val("Card Gym")) >> ]] }

\* two of the results the random calls of one _generate_mock_classes run can give
Draws ==
    { [title |-> [n \in 1..MockCount |-> ((n + b) % Len(MockClassTypes)) + 1],
       location |-> [n \in 1..MockCount |-> ((n + b) % Len(MockLocations)) + 1],
       spots |-> [n \in 1..MockCount |-> 5 + ((3 * n + b) % 21)]] : b \in {0, 3} }

NoOutcome == [kind |-> "none", payload |-> Payload(Absent(""), Absent(""), Absent(<<>>))]

\* ------------------------------------------------------------- log manager
\* the pool threads that run log_estimation and get_recent_estimations
Threads == 1..MaxThreads

\* a thread that is in no call; seen holds the lines its last
\* get_recent_estimations call read
IdleThread == [pc |-> "idle", entry |-> 0, seen |-> <<>>]

\* LOG_FILE before the first log_estimation call of a fresh deployment
NoFile == [exists |-> FALSE, data |-> <<>>]

\* what one write to the file appends: a whole line (json.dumps(payload) and
\* the newline), or the head or the tail of a line that is longer than the
\* file object's buffer and reaches the file in two writes
Chunk(entry, part) == [entry |-> entry, part |-> part]

\* ------------------------------------------------------------------ state
VARIABLES
    apiKey,     \* OPENAI_API_KEY is set in the process environment
    pc,         \* "idle", "llm" (LLM-attempt), "rule" (Rule-based), "fetch", "done"; "fn", "fnret" in SpecFn
    req,        \* the ChatRequest being served, with the clock it reads
    client,     \* EnhancedLLMProvider.client is not None for this request
    llmCalls,   \* chat.completions.create invocations for this request
    answer,     \* what the generative collaborator answered, once it did
    resp,       \* what the chat operation returns to its caller
    branch,     \* branch of _understand_intent that produced resp, or "none"
    via,        \* stage that produced resp: "none", "class_lookup", "prompt", "llm", "rule"
    call,       \* SpecFn: the function applied and its arguments
    ret,        \* SpecFn: what it returned or raised
    fetches,    \* GET requests sent to the schedule API by this process so far
    listing,    \* the latest /classes request and the records it returned
    prevListing, \* the /classes request served before it
    lock,       \* log_manager._lock: 0 when free, else the thread holding it
    file,       \* LOG_FILE: whether it exists, and the chunks written to it so far
    threads,    \* the pool threads of the calorie estimator: position, entry, lines read
    entries     \* log_estimation calls started so far; a call's entry is its number

vars == <<apiKey, pc, req, client, llmCalls, answer, resp, branch, via, call, ret,
          fetches, listing, prevListing, lock, file, threads, entries>>

\* the state of the log manager
logVars == <<lock, file, threads, entries>>

\* the state of the chat and schedule services
apiVars == <<apiKey, pc, req, client, llmCalls, answer, resp, branch, via, call, ret,
             fetches, listing, prevListing>>

\* no /classes request served yet
NoListing == [served |-> FALSE, date |-> Absent(""), location |-> Absent(""),
              type |-> Absent(""), api |-> [kind |-> "none", data |-> [isList |-> FALSE, items |-> <<>>]], classes |-> <<>>]

NoRequest == [message |-> "", profile |-> NoProfile, history |-> <<>>,
              context |-> NoContext, now |-> DateTime(0, 0, 0)]

\* SpecFn: nothing returned yet; val holds a returned suggestion list, date a
\* returned date, window a returned time window, query a resolved class query,
\* topics the returned context["topics"], status the HTTP status of a handler's
\* response, invoked whether the handler called GoogleCalendarService.add_event
NoRet == [exc |-> "none", val |-> <<>>, date |-> NoDate, window |-> NoWindow,
          topics |-> <<>>, status |-> 0, invoked |-> FALSE, reply |-> NoneResult,
          query |-> [label |-> "", dates |-> <<>>, time_window |-> NoWindow]]

NoCall == [fn |-> "none", profile |-> NoProfile, time_prefs |-> <<>>, message |-> "",
           now |-> DateTime(0, 0, 0), history |-> <<>>, authorization |-> Absent(""),
           order |-> "kept"]

Init ==
    /\ apiKey \in BOOLEAN
    /\ pc = "idle"
    /\ req = NoRequest
    /\ client = FALSE
    /\ llmCalls = 0
    /\ answer = NoOutcome
    /\ resp = NoneResult
    /\ branch = "none"
    /\ via = "none"
    /\ call = NoCall
    /\ ret = NoRet
    /\ fetches = 0
    /\ listing = NoListing
    /\ prevListing = NoListing
    /\ lock = 0
    /\ file = NoFile
    /\ threads = [t \in Threads |-> IdleThread]
    /\ entries = 0

\* chat(request) up to the first external call of generate(): the provider
\* is constructed, the class lookup runs, and generate() analyses the history
\* and enters _call_llm
Chat(message, p, history, ctx, now, ctorOk) ==
    /\ pc = "idle"
    /\ req' = [message |-> message, profile |-> p, history |-> history,
               context |-> ctx, now |-> now]
    /\ client' = (apiKey /\ ctorOk)
    /\ UNCHANGED <<lock, file, threads, entries, fetches, listing, prevListing, apiKey, answer, branch, call, ret>>
    /\ IF FetchDukeRecClassesIfRequested(message) # "None"
       THEN /\ resp' = Raise(FetchDukeRecClassesIfRequested(message))
            /\ via' = "class_lookup"
            /\ pc' = "done"
            /\ llmCalls' = 0
       ELSE IF CallLLMEntry(client', ctx) = "none"
       THEN /\ pc' = "rule"
            /\ llmCalls' = 0
            /\ UNCHANGED <<resp, via>>
       ELSE IF CallLLMEntry(client', ctx) # "invoke"
       THEN /\ resp' = Raise(CallLLMEntry(client', ctx))
            /\ via' = "prompt"
            /\ pc' = "done"
            /\ llmCalls' = 0
       ELSE /\ pc' = "llm"
            /\ llmCalls' = 1
            /\ UNCHANGED <<resp, via>>

\* _call_llm with one retry of chat.completions.create after a failed attempt
LLMReturn_Retry(outcome) ==
    /\ pc = "llm"
    /\ answer' = outcome
    /\ LET r == CallLLMResult(outcome, req.profile, req.now)
       IN  IF r.type # "none"
           THEN /\ resp' = r
                /\ via' = "llm"
                /\ pc' = "done"
                /\ UNCHANGED llmCalls
           ELSE IF llmCalls < 2
           THEN /\ pc' = "llm"
                /\ llmCalls' = llmCalls + 1
                /\ UNCHANGED <<resp, via>>
           ELSE /\ pc' = "rule"
                /\ UNCHANGED <<resp, via, llmCalls>>
    /\ UNCHANGED <<lock, file, threads, entries, fetches, listing, prevListing, apiKey, req, client, branch, call, ret>>

\* the collaborator answers (or fails); _call_llm returns the normalized
\* response or None
LLMReturn(outcome) ==
    /\ pc = "llm"
    /\ answer' = outcome
    /\ LET r == CallLLMResult(outcome, req.profile, req.now)
       IN  IF r.type # "none"
           THEN /\ resp' = r
                /\ via' = "llm"
                /\ pc' = "done"
           ELSE /\ pc' = "rule"
                /\ UNCHANGED <<resp, via>>
    /\ UNCHANGED <<lock, file, threads, entries, fetches, listing, prevListing, apiKey, req, client, llmCalls, branch, call, ret>>

\* generate() falls through to _understand_intent
RuleBased ==
    /\ pc = "rule"
    /\ LET message_lower == Strip(Lower(req.message))
       IN  /\ resp' = UnderstandIntent(message_lower, req.profile,
                                       AnalyzeConversationHistory(req.history), req.now)
           /\ branch' = IntentBranch(message_lower)
    /\ via' = "rule"
    /\ pc' = "done"
    /\ UNCHANGED <<lock, file, threads, entries, fetches, listing, prevListing, apiKey, req, client, llmCalls, answer, call, ret>>

\* the response is sent; the worker is free for the next request
Finish ==
    /\ pc = "done"
    /\ pc' = "idle"
    /\ req' = NoRequest
    /\ client' = FALSE
    /\ llmCalls' = 0
    /\ answer' = NoOutcome
    /\ resp' = NoneResult
    /\ branch' = "none"
    /\ via' = "none"
    /\ UNCHANGED <<lock, file, threads, entries, fetches, listing, prevListing, apiKey, call, ret>>

Next ==
    \/ /\ pc = "idle"
       /\ \E message \in Messages, p \in Profiles, history \in Histories,
             ctx \in Contexts, now \in Nows, ctorOk \in BOOLEAN :
             Chat(message, p, history, ctx, now, ctorOk)
    \/ /\ pc = "llm"
       /\ \E outcome \in Outcomes : LLMReturn(outcome)
    \/ RuleBased
    \/ Finish

Spec == Init /\ [][Next]_vars

\* ------------------------------------------- generators applied in isolation
InitFn ==
    /\ apiKey = FALSE
    /\ pc = "fn"
    /\ req = NoRequest
    /\ client = FALSE
    /\ llmCalls = 0
    /\ answer = NoOutcome
    /\ resp = NoneResult
    /\ branch = "none"
    /\ via = "none"
    /\ call = NoCall
    /\ ret = NoRet
    /\ fetches = 0
    /\ listing = NoListing
    /\ prevListing = NoListing
    /\ lock = 0
    /\ file = NoFile
    /\ threads = [t \in Threads |-> IdleThread]
    /\ entries = 0

\* one call _generate_workout_suggestions(user_profile, time_prefs)
CallGenerateWorkoutSuggestions(p, time_prefs, now) ==
    /\ pc = "fn"
    /\ call' = [NoCall EXCEPT !.fn = "_generate_workout_suggestions", !.profile = p,
                              !.time_prefs = time_prefs, !.now = now]
    /\ LET r == GenerateWorkoutSuggestions(p, Val(time_prefs), now)
       IN  ret' = [NoRet EXCEPT !.exc = r.exc, !.val = r.val]
    /\ pc' = "fnret"
    /\ UNCHANGED <<lock, file, threads, entries, fetches, listing, prevListing, apiKey, req, client, llmCalls, answer, resp, branch, via>>

\* one call _parse_specific_date(message)
CallParseSpecificDate(message, now) ==
    /\ pc = "fn"
    /\ call' = [NoCall EXCEPT !.fn = "_parse_specific_date", !.message = message, !.now = now]
    /\ ret' = [NoRet EXCEPT !.date = ParseSpecificDate(message, now)]
    /\ pc' = "fnret"
    /\ UNCHANGED <<lock, file, threads, entries, fetches, listing, prevListing, apiKey, req, client, llmCalls, answer, resp, branch, via>>

\* one call _parse_time_window(message)
CallParseTimeWindow(message) ==
    /\ pc = "fn"
    /\ call' = [NoCall EXCEPT !.fn = "_parse_time_window", !.message = message]
    /\ ret' = [NoRet EXCEPT !.window = ParseTimeWindow(message)]
    /\ pc' = "fnret"
    /\ UNCHANGED <<lock, file, threads, entries, fetches, listing, prevListing, apiKey, req, client, llmCalls, answer, resp, branch, via>>

\* one call _resolve_class_query(message)
CallResolveClassQuery(message, now) ==
    /\ pc = "fn"
    /\ call' = [NoCall EXCEPT !.fn = "_resolve_class_query", !.message = message, !.now = now]
    /\ ret' = [NoRet EXCEPT !.query = ResolveClassQuery(message, now)]
    /\ pc' = "fnret"
    /\ UNCHANGED <<lock, file, threads, entries, fetches, listing, prevListing, apiKey, req, client, llmCalls, answer, resp, branch, via>>

\* one call _analyze_conversation_history(history)
CallAnalyzeConversationHistory(history) ==
    /\ pc = "fn"
    /\ call' = [NoCall EXCEPT !.fn = "_analyze_conversation_history", !.history = history]
    /\ ret' = [NoRet EXCEPT !.topics = AnalyzeConversationHistory(history).topics]
    /\ pc' = "fnret"
    /\ UNCHANGED <<lock, file, threads, entries, fetches, listing, prevListing, apiKey, req, client, llmCalls, answer, resp, branch, via>>

\* one POST /calendar/add with the given Authorization header
CallAddEvent(authorization) ==
    /\ pc = "fn"
    /\ call' = [NoCall EXCEPT !.fn = "add_event", !.authorization = authorization]
    /\ ret' = [NoRet EXCEPT !.status = AddEvent(authorization).status,
                            !.invoked = AddEvent(authorization).invoked]
    /\ pc' = "fnret"
    /\ UNCHANGED <<lock, file, threads, entries, fetches, listing, prevListing, apiKey, req, client, llmCalls, answer, resp, branch, via>>

\* one call _build_class_response(payload) for the payload built from the
\* records of the dates the lowered message resolves to
CallBuildClassResponse(message, now, api, draw, order) ==
    /\ pc = "fn"
    /\ call' = [NoCall EXCEPT !.fn = "_build_class_response", !.message = message,
                              !.now = now, !.order = order]
    /\ ret' = [NoRet EXCEPT
                 !.query = ResolveClassQuery(message, now),
                 !.reply = BuildClassResponse(
                              ClassesPayload(ResolveClassQuery(message, now), api, draw,
                                             order, now))]
    /\ pc' = "fnret"
    /\ UNCHANGED <<lock, file, threads, entries, fetches, listing, prevListing, apiKey, req, client, llmCalls, answer, resp, branch, via>>

\* the function has returned; the next call starts from scratch
ReturnFn ==
    /\ pc = "fnret"
    /\ pc' = "fn"
    /\ call' = NoCall
    /\ ret' = NoRet
    /\ UNCHANGED <<lock, file, threads, entries, fetches, listing, prevListing, apiKey, req, client, llmCalls, answer, resp, branch, via>>

NextFn ==
    \/ ReturnFn
    \/ /\ pc = "fn"
       /\ \E p \in Profiles,
             time_prefs \in { <<>>, <<"morning">>, <<"afternoon">>, <<"evening">>,
                              <<"morning", "evening">>, <<"evening", "afternoon", "morning">> },
             now \in Nows :
             CallGenerateWorkoutSuggestions(p, time_prefs, now)
    \/ /\ pc = "fn"
       /\ \E message \in YMDMessages \cup ClassMessages, now \in Nows \cup {DateTime(d, 9, 30) : d \in {5, 6}} :
             CallParseSpecificDate(message, now)
    \/ /\ pc = "fn"
       /\ \E message \in ClassMessages : CallParseTimeWindow(message)
    \/ /\ pc = "fn"
       /\ \E message \in ClassMessages, now \in Nows \cup {DateTime(d, 9, 30) : d \in {5, 6}} :
             CallResolveClassQuery(message, now)
    \/ /\ pc = "fn"
       /\ \E n \in 0..MaxHistory :
             \E history \in [1..n -> { Turn("user", c) : c \in {"ok", "Fitness", "my schedule",
                                                                "lunch today"} }] :
                CallAnalyzeConversationHistory(history)
    \/ /\ pc = "fn"
       /\ \E authorization \in { Absent(""), Val(""), Val("Bearer "), Val("Bearer Bearer "),
                                 Val("Bearer abc"), Val("abc") } :
             CallAddEvent(authorization)
    \/ /\ pc = "fn"
       /\ \E message \in {"classes today", "classes tomorrow", "classes this week",
                           "classes on 2025-11-10"},
             api \in { a \in ApiOutcomes : ~a.data.isList },   \* no records from the API
             draw \in Draws, order \in {"kept", "reversed", "dealt"} :
             CallBuildClassResponse(message, DateTime(0, 9, 30), api, draw, order)

SpecFn == InitFn /\ [][NextFn]_vars

\* ------------------------------------------- the schedule lookups of a process
InitClasses ==
    /\ apiKey = FALSE
    /\ pc = "classes"
    /\ req = NoRequest
    /\ client = FALSE
    /\ llmCalls = 0
    /\ answer = NoOutcome
    /\ resp = NoneResult
    /\ branch = "none"
    /\ via = "none"
    /\ call = NoCall
    /\ ret = NoRet
    /\ fetches = 0
    /\ listing = NoListing
    /\ prevListing = NoListing
    /\ lock = 0
    /\ file = NoFile
    /\ threads = [t \in Threads |-> IdleThread]
    /\ entries = 0

\* GET /classes: get_classes builds a new MyRecProvider, whose search sends
\* one GET to the schedule API and returns what it parsed or the mock records;
\* the clock reads day 0, 09:30
GetClasses(date, location, type, api, draw) ==
    /\ pc = "classes"
    /\ fetches < MaxFetches
    /\ fetches' = fetches + 1
    /\ prevListing' = listing
    /\ listing' = [served |-> TRUE, date |-> date, location |-> location, type |-> type,
                   api |-> api,
                   classes |-> Search(date, location, type, api, draw, DateTime(0, 9, 30))]
    /\ UNCHANGED <<apiKey, pc, req, client, llmCalls, answer, resp, branch, via, call, ret>>
    /\ UNCHANGED logVars

\* POST /chat with a class question: the lookup of
\* _fetch_duke_rec_classes_if_requested fails on its first provider.search call,
\* before any GET is sent
ChatClassQuestion(message) ==
    /\ pc = "classes"
    /\ FetchDukeRecClassesIfRequested(message) = "TypeError"
    /\ resp' = Raise("TypeError")
    /\ via' = "class_lookup"
    /\ UNCHANGED <<apiKey, pc, req, client, llmCalls, answer, branch, call, ret,
                   fetches, listing, prevListing>>
    /\ UNCHANGED logVars

NextClasses ==
    \/ /\ pc = "classes"
       /\ \E date \in {Absent(""), Val("2025-11-10"), Val("nov 10")},
             location \in {Absent(""), Val("card")}, type \in {Absent(""), Val("yoga")},
             api \in ApiOutcomes, draw \in Draws :
             GetClasses(date, location, type, api, draw)
    \/ /\ pc = "classes"
       /\ \E message \in {"find me a class", "classes tomorrow evening"} :
             ChatClassQuestion(message)

SpecClasses == InitClasses /\ [][NextClasses]_vars

\* ------------------------------- requests that wait for an external answer
\* GET /classes up to the point where MyRecProvider.search has sent its GET to
\* the schedule API and awaits the response
GetClassesSend(date, location, type) ==
    /\ pc = "idle"
    /\ fetches < MaxFetches
    /\ fetches' = fetches + 1
    /\ prevListing' = listing
    /\ listing' = [NoListing EXCEPT !.date = date, !.location = location, !.type = type]
    /\ pc' = "fetch"
    /\ UNCHANGED <<apiKey, req, client, llmCalls, answer, resp, branch, via, call, ret>>
    /\ UNCHANGED logVars

\* the schedule API answers, or the request fails, before the timeout
GetClassesReturn(api, draw) ==
    /\ pc = "fetch"
    /\ listing' = [listing EXCEPT !.served = TRUE, !.api = api,
                     !.classes = Search(listing.date, listing.location, listing.type, api,
                                        draw, DateTime(0, 9, 30))]
    /\ pc' = "done"
    /\ UNCHANGED <<apiKey, req, client, llmCalls, answer, resp, branch, via, call, ret,
                   fetches, prevListing>>
    /\ UNCHANGED logVars

\* client.get(..., timeout=10.0): httpx raises a timeout exception, search
\* catches it and returns the mock records
GetClassesTimeout(draw) ==
    GetClassesReturn([kind |-> "error", data |-> [isList |-> FALSE, items |-> <<>>]], draw)

\* chat requests and /classes requests served one after the other
NextLive ==
    \/ /\ pc = "idle"
       /\ \E message \in {"hi", "what workout should i do"}, ctorOk \in BOOLEAN :
             Chat(message, NoProfile, <<>>, NoContext, DateTime(0, 9, 30), ctorOk)
    \/ /\ pc = "llm"
       /\ \E outcome \in Outcomes : LLMReturn(outcome)
    \/ RuleBased
    \/ Finish
    \/ /\ pc = "idle"
       /\ GetClassesSend(Absent(""), Absent(""), Absent(""))
    \/ /\ pc = "fetch"
       /\ \E api \in ApiOutcomes, draw \in Draws : GetClassesReturn(api, draw)
    \/ /\ pc = "fetch"
       /\ \E draw \in Draws : GetClassesTimeout(draw)

\* the steps the process takes by itself: the rule-based computation, sending
\* the response, and the expiry of the 10-second timeout of the schedule GET.
\* RuleBased is enabled exactly when pc = "rule" and always leaves that
\* position, so weak fairness of RuleBased is written as []<>(pc # "rule").
\* chat.completions.create is called without a timeout: nothing in the code
\* forces the LLM attempt to end
SpecLive ==
    /\ Init
    /\ [][NextLive]_vars
    /\ []<>(pc # "rule")
    /\ WF_vars(Finish)
    /\ WF_vars(pc = "fetch" /\ \E draw \in Draws : GetClassesTimeout(draw))

\* ------------------------------------------ the log manager's thread pool
\* log_manager without the lock: `with _lock:` never waits
LockFree_NoLock == TRUE

\* `with _lock:` may be entered
LockFree == lock = 0

\* log_estimation(entry) up to `with _lock`: the directory is made and the
\* line is serialized
LogEstimation(t) ==
    /\ threads[t].pc = "idle"
    /\ entries < MaxEntries
    /\ entries' = entries + 1
    /\ threads' = [threads EXCEPT ![t] = [pc |-> "w_wait", entry |-> entries + 1, seen |-> <<>>]]
    /\ UNCHANGED <<lock, file>>
    /\ UNCHANGED apiVars

\* the lock is taken and LOG_FILE.open("a") creates the file if needed
OpenForAppend(t) ==
    /\ threads[t].pc = "w_wait"
    /\ LockFree
    /\ lock' = t
    /\ file' = [file EXCEPT !.exists = TRUE]
    /\ threads' = [threads EXCEPT ![t].pc = "w_open"]
    /\ UNCHANGED entries
    /\ UNCHANGED apiVars

\* file.write(line + "\n") of a line longer than the buffer: its head reaches
\* the file while the call is still running
WriteHead(t) ==
    /\ threads[t].pc = "w_open"
    /\ file' = [file EXCEPT !.data = Append(@, Chunk(threads[t].entry, "head"))]
    /\ threads' = [threads EXCEPT ![t].pc = "w_mid"]
    /\ UNCHANGED <<lock, entries>>
    /\ UNCHANGED apiVars

\* the file is closed, which writes what is still buffered (the whole line,
\* or its tail), and the lock is released
CloseAndRelease(t) ==
    /\ threads[t].pc \in {"w_open", "w_mid"}
    /\ file' = [file EXCEPT !.data =
                  Append(@, Chunk(threads[t].entry,
                                  IF threads[t].pc = "w_open" THEN "line" ELSE "tail"))]
    /\ lock' = 0
    /\ threads' = [threads EXCEPT ![t] = IdleThread]
    /\ UNCHANGED entries
    /\ UNCHANGED apiVars

\* get_recent_estimations(limit) up to `with _lock`: [] at once for a limit
\* <= 0 or a missing file
GetRecentEstimations(t, limit) ==
    /\ threads[t].pc = "idle"
    /\ threads' = [threads EXCEPT ![t] =
                     [pc |-> IF limit <= 0 \/ ~file.exists THEN "idle" ELSE "r_wait",
                      entry |-> 0, seen |-> <<>>]]
    /\ UNCHANGED <<lock, file, entries>>
    /\ UNCHANGED apiVars

\* the lock is taken and the file opened for reading
OpenForRead(t) ==
    /\ threads[t].pc = "r_wait"
    /\ LockFree
    /\ lock' = t
    /\ threads' = [threads EXCEPT ![t].pc = "r_open"]
    /\ UNCHANGED <<file, entries>>
    /\ UNCHANGED apiVars

\* file.readlines(), the file is closed and the lock released; the call
\* returns the entries parsed from the lines read
ReadLines(t) ==
    /\ threads[t].pc = "r_open"
    /\ threads' = [threads EXCEPT ![t] = [pc |-> "idle", entry |-> 0, seen |-> file.data]]
    /\ lock' = 0
    /\ UNCHANGED <<file, entries>>
    /\ UNCHANGED apiVars

NextLog ==
    \/ \E t \in Threads : LogEstimation(t)
    \/ \E t \in Threads : OpenForAppend(t)
    \/ \E t \in Threads : WriteHead(t)
    \/ \E t \in Threads : CloseAndRelease(t)
    \/ \E t \in Threads, limit \in {0, 20} : GetRecentEstimations(t, limit)
    \/ \E t \in Threads : OpenForRead(t)
    \/ \E t \in Threads : ReadLines(t)

\* the calorie estimator's log manager alone; the other services stay as
\* constructed
SpecLog == Init /\ [][NextLog]_vars

\* ================================================================ claims
\* order of two ISO strings of the same width
IsoLess(a, b) ==
    \/ a[1] < b[1]
    \/ a[1] = b[1] /\ a[2] < b[2]
    \/ a[1] = b[1] /\ a[2] = b[2] /\ a[3] < b[3]

\* minutes from ISO value a to ISO value b
IsoMinutesBetween(a, b) == (b[1] - a[1]) * 1440 + (b[2] - a[2]) * 60 + (b[3] - a[3])

\* what generate() returns on the rule-based path for the request in `req`
RuleBasedResponse ==
    UnderstandIntent(Strip(Lower(req.message)), req.profile,
                     AnalyzeConversationHistory(req.history), req.now)

\* generate() was entered for the current request
GenerateEntered == pc \in {"llm", "rule", "done"} /\ via # "class_lookup"

\* C1 (as claimed): with a configured generative collaborator, whenever
\* generate() does not return the collaborator's normalized answer, it returns
\* the rule-based response for the same message, profile and history: no
\* failure of the LLM attempt (prompt building included) reaches the caller.
C1_FallbackOnAnyFailure ==
    (pc = "done" /\ GenerateEntered /\ client /\ via # "llm")
        => (via = "rule" /\ resp = RuleBasedResponse)

\* C2: without a client, generate() never invokes the generative collaborator
\* and returns exactly _understand_intent(message.lower().strip(), profile,
\* context derived from the history).
C2_NoClientIsRuleBased ==
    (GenerateEntered /\ ~client)
        => /\ llmCalls = 0
           /\ pc # "llm"
           /\ answer = NoOutcome
           /\ pc = "done" => (via = "rule" /\ resp = RuleBasedResponse)

C2_Witness ==
    /\ pc = "done" /\ ~client /\ via = "rule"
    /\ resp.type = "suggestions" /\ llmCalls = 0

\* C3 (as claimed): every chat request, class-lookup messages included, ends in
\* a well-formed ChatResponse of type "message" or "suggestions", never in an
\* error response.
C3_AlwaysWellFormed ==
    pc = "done" => (resp.status = 200 /\ resp.type \in {"message", "suggestions"})

\* C4: every returned ChatResponse of type "suggestions" carries a non-empty
\* suggestions list, and a generative answer that declares "suggestions" but
\* yields no suggestion object is returned with type "message".
C4_SuggestionsNonEmpty ==
    /\ (pc = "done" /\ resp.type = "suggestions") => Len(resp.suggestions) > 0
    /\ (pc = "done" /\ via = "llm" /\ answer.payload.type = Val("suggestions"))
          => resp.type = "message"

C4_Witness ==
    /\ pc = "done" /\ via = "rule" /\ branch = "workout"
    /\ resp.type = "suggestions" /\ Len(resp.suggestions) = 1
    /\ ProfileTruthy(req.profile) /\ ~Truthy(req.profile.timePrefs)

IntentOrder ==
    << "greeting", "workout", "meal", "class", "plan", "progress", "nutrition",
       "time", "general", "default" >>

\* the trigger of one entry of the ordered list, on its own
IntentTrigger(label, message) ==
    CASE label = "greeting" -> AnyIn(message, GreetingWords)
      [] label = "workout" -> AnyIn(message, WorkoutWords)
      [] label = "meal" -> AnyIn(message, MealWords)
      [] label = "class" -> AnyIn(message, ClassWords)
      [] label = "plan" -> AnyIn(message, PlanWords)
      [] label = "progress" -> AnyIn(message, ProgressWords)
      [] label = "nutrition" -> AnyIn(message, NutritionWords)
      [] label = "time" -> AnyIn(message, TimeWords)
      [] label = "general" -> \E q \in QuestionStarts : StartsWith(message, q)
      [] OTHER -> TRUE

\* C5: the branch _understand_intent takes is exactly one entry of the fixed
\* ordered list, namely the first whose trigger the message satisfies, whatever
\* the profile, history and clock of the request.
C5_ExactlyOneBranch ==
    (pc = "done" /\ via = "rule")
        => LET m == Strip(Lower(req.message))
           IN  \E i \in 1..Len(IntentOrder) :
                  /\ branch = IntentOrder[i]
                  /\ IntentTrigger(IntentOrder[i], m)
                  /\ \A j \in 1..(i - 1) : ~IntentTrigger(IntentOrder[j], m)

C5_Witness ==
    /\ pc = "done" /\ via = "rule" /\ req.message = "my schedule" /\ branch = "class"
    /\ IntentTrigger("plan", req.message) /\ IntentTrigger("time", req.message)

\* C6 (as claimed): every message with a meal keyword and a workout keyword is
\* handled by the workout branch.
C6_MealAndWorkoutIsWorkout ==
    (pc = "done" /\ via = "rule"
       /\ AnyIn(Strip(Lower(req.message)), MealWords)
       /\ AnyIn(Strip(Lower(req.message)), WorkoutWords))
        => branch = "workout"

\* C6 (amended): every message with a meal keyword and a workout keyword and
\* no greeting keyword is handled by the workout branch.
C6_MealAndWorkoutNoGreeting ==
    (pc = "done" /\ via = "rule"
       /\ AnyIn(Strip(Lower(req.message)), MealWords)
       /\ AnyIn(Strip(Lower(req.message)), WorkoutWords)
       /\ ~AnyIn(Strip(Lower(req.message)), GreetingWords))
        => branch = "workout"

C6_Witness ==
    /\ pc = "done" /\ via = "rule" /\ branch = "workout"
    /\ req.message = "meal and workout"

AllOfKind(sgs, kind) == \A i \in 1..Len(sgs) : sgs[i].kind = kind

CountOfKind(sgs, kind) == Cardinality({ i \in 1..Len(sgs) : sgs[i].kind = kind })

\* C7 (as claimed): a response of the workout branch carries at least one
\* workout suggestion for every profile, and exactly one, starting at 18:00
\* today, when the profile's timePrefs is empty or missing.
C7_WorkoutNeverEmpty ==
    (pc = "done" /\ via = "rule" /\ branch = "workout")
        => /\ resp.status = 200
           /\ Len(resp.suggestions) >= 1
           /\ AllOfKind(resp.suggestions, "workout")
           /\ (ProfileTruthy(req.profile) /\ ~Truthy(req.profile.timePrefs))
                 => /\ Len(resp.suggestions) = 1
                    /\ resp.suggestions[1].payload.startISO = <<req.now.day, 18, 0>>

\* C8 (as claimed): _generate_workout_suggestions returns one or two workout
\* suggestions for every time_prefs list, one per entry of its first two
\* entries at 07:00 / 14:00 / 18:00 today, each lasting 45 minutes with
\* startISO < endISO.
C8_WorkoutSuggestionsShape ==
    call.fn = "_generate_workout_suggestions"
        => /\ ret.exc = "none"
           /\ Len(ret.val) \in 1..2
           /\ AllOfKind(ret.val, "workout")
           /\ Len(call.time_prefs) > 0 =>
                /\ Len(ret.val) = Len(Take(call.time_prefs, 2))
                /\ \A i \in 1..Len(ret.val) :
                      ret.val[i].payload.startISO =
                        << call.now.day,
                           CASE call.time_prefs[i] = "morning" -> 7
                             [] call.time_prefs[i] = "afternoon" -> 14
                             [] call.time_prefs[i] = "evening" -> 18,
                           0 >>
           /\ \A i \in 1..Len(ret.val) :
                 /\ IsoLess(ret.val[i].payload.startISO, ret.val[i].payload.endISO)
                 /\ IsoMinutesBetween(ret.val[i].payload.startISO,
                                      ret.val[i].payload.endISO) = 45

\* C9 (as claimed): a response of the meal branch carries at least one
\* suggestion, all of kind "meal"; the first is "Quinoa Buddha Bowl" when
\* dietPrefs contains "Vegetarian" or "Vegan"; and it is the single default
\* balanced meal when neither the preferences nor the goal match.
C9_MealSuggestions ==
    (pc = "done" /\ via = "rule" /\ branch = "meal")
        => LET diet == ProfileGet(req.profile, req.profile.dietPrefs, <<>>, <<>>)
               goal == ProfileGet(req.profile, req.profile.primaryGoal, "", "")
               veg == diet.k = "val" /\ (InList("Vegetarian", diet.v) \/ InList("Vegan", diet.v))
               fit == goal.k = "val" /\ (Contains(Lower(goal.v), "fitness")
                                          \/ Contains(Lower(goal.v), "strength"))
           IN  /\ resp.status = 200
               /\ Len(resp.suggestions) >= 1
               /\ AllOfKind(resp.suggestions, "meal")
               /\ veg => resp.suggestions[1].title = "Quinoa Buddha Bowl"
               /\ (~veg /\ ~fit) => /\ Len(resp.suggestions) = 1
                                    /\ resp.suggestions[1].title = "Salmon with Quinoa"
               /\ (Strip(Lower(req.message)) = "what should i eat" /\ veg)
                     => resp.type = "suggestions"

\* C10 (as claimed): a response of the plan branch holds exactly one workout,
\* one meal and one class suggestion and carries a planData entry.
C10_PlanComposition ==
    (pc = "done" /\ via = "rule" /\ branch = "plan")
        => /\ CountOfKind(resp.suggestions, "workout") = 1
           /\ CountOfKind(resp.suggestions, "meal") = 1
           /\ CountOfKind(resp.suggestions, "class") = 1
           /\ "planData" \in DOMAIN resp

\* C11 (as claimed): the rule-based path returns a response, and never raises,
\* for every profile in which any of the optional fields name, primaryGoal,
\* dietPrefs, timePrefs, timeBudgetMin is missing (key absent or value null),
\* the empty and the absent profile included.
C11_RuleBasedNeverRaises ==
    (pc = "done" /\ via = "rule") => resp.status = 200

\* the request in `req` after generate() lowered and stripped its message
MessageLower == Strip(Lower(req.message))

\* C12 (as claimed): on the rule-based path, a message that matches none of
\* the intents checked before the time intent, contains 'when', 'time' or
\* 'schedule', and arrives with 'workout' among the topics of the analysed
\* history, is answered with a workout suggestion follow-up, for every profile.
C12_TimeFollowUp ==
    ( /\ pc = "done" /\ via = "rule"
      /\ \A i \in 1..7 : ~IntentTrigger(IntentOrder[i], MessageLower)
      /\ AnyIn(MessageLower, {"when", "time", "schedule"})
      /\ InList("workout", AnalyzeConversationHistory(req.history).topics) )
        => /\ resp.status = 200
           /\ Len(resp.suggestions) >= 1
           /\ AllOfKind(resp.suggestions, "workout")

\* C13 (as claimed): for every valid calendar date of the years 2000-2099
\* written as YYYY-M-D, month and day with one or two digits each,
\* _parse_specific_date returns that same date; a message whose only
\* date-shaped token has an impossible month or day yields no explicit date.
C13_IsoRoundTrip ==
    call.fn = "_parse_specific_date"
        => /\ \A dt \in WrittenDates, padM \in BOOLEAN, padD \in BOOLEAN :
                 ( /\ ValidDate(dt.year, dt.month, dt.day)
                   /\ call.message = "classes on " \o FormatYMD(dt, padM, padD) )
                     => ret.date = dt
           /\ \A dt \in WrittenDates, padM \in BOOLEAN, padD \in BOOLEAN :
                 ( /\ ~ValidDate(dt.year, dt.month, dt.day)
                   /\ call.message = "classes on " \o FormatYMD(dt, padM, padD) )
                     => ret.date = NoDate
           /\ call.message = "classes on 2025-13-01" => ret.date = NoDate

\* C14 (as claimed): when the message holds no explicit date,
\* _resolve_class_query returns [today+1] if it contains 'tomorrow'; otherwise
\* the two dates from the next Saturday ((5 - weekday) mod 7 days ahead) if it
\* contains 'weekend'; otherwise the seven dates from today if it contains
\* 'week'; otherwise [today]. The date list is never empty.
C14_RelativeWindow ==
    call.fn = "_resolve_class_query"
        => /\ Len(ret.query.dates) >= 1
           /\ ParseSpecificDate(call.message, call.now) = NoDate
                => ret.query.dates =
                     IF Contains(call.message, "tomorrow")
                     THEN << AddDays(Today(call.now), 1) >>
                     ELSE IF Contains(call.message, "weekend")
                     THEN DateRange(AddDays(Today(call.now),
                                            (5 - Weekday(Today(call.now))) % 7), 2)
                     ELSE IF Contains(call.message, "week")
                     THEN DateRange(Today(call.now), 7)
                     ELSE << Today(call.now) >>

\* C15: _parse_time_window returns the window of the first of morning (5,12),
\* afternoon (12,17), evening (17,22), night (20,24) that occurs in the
\* message, and no window when none occurs, without raising; 'classes tomorrow
\* evening' resolves to the single date today+1, the window (17,22) and a
\* label containing 'tomorrow' and 'evening'.
C15_TimeWindow ==
    /\ call.fn = "_parse_time_window"
         => /\ ret.exc = "none"
            /\ ret.window =
                 IF Contains(call.message, "morning") THEN <<5, 12>>
                 ELSE IF Contains(call.message, "afternoon") THEN <<12, 17>>
                 ELSE IF Contains(call.message, "evening") THEN <<17, 22>>
                 ELSE IF Contains(call.message, "night") THEN <<20, 24>>
                 ELSE NoWindow
    /\ (call.fn = "_resolve_class_query" /\ call.message = "classes tomorrow evening")
         => /\ ret.query.dates = << AddDays(Today(call.now), 1) >>
            /\ ret.query.time_window = <<17, 22>>
            /\ Contains(ret.query.label, "tomorrow")
            /\ Contains(ret.query.label, "evening")

\* a message with two keywords got the window of the earlier table entry
C15_Witness ==
    /\ pc = "fnret"
    /\ call.fn = "_parse_time_window"
    /\ call.message = "evening or morning class"
    /\ ret.window = <<5, 12>>

\* str.lower() of the filter is a substring of str.lower() of the text
ContainsFolded(text, filter) == Contains(Lower(text), Lower(filter))

\* C16 (as claimed): every record the schedule search returns satisfies all
\* supplied filters at once: its date is the requested date, its location
\* contains the location filter and its title the class-type filter (case-
\* insensitive substrings).
C16_AllFiltersHold ==
    listing.served
        => \A n \in 1..Len(listing.classes) :
             /\ Truthy(listing.date)
                  => /\ listing.classes[n].start.k = "val"
                     /\ \/ ParseIsoDate(listing.date.v) = NoDate
                        \/ listing.classes[n].start.v.date = ParseIsoDate(listing.date.v)
             /\ Truthy(listing.location)
                  => ContainsFolded(listing.classes[n].location, listing.location.v)
             /\ Truthy(listing.type)
                  => ContainsFolded(listing.classes[n].title, listing.type.v)

\* (date, hour, minute) of a record's start, None and "" sorting first
StartKey(c) ==
    IF c.start.k = "val"
    THEN ToOrdinal(c.start.v.date) * 1440 + c.start.v.hour * 60 + c.start.v.minute
    ELSE 0

\* C17 (as claimed): two searches with the same filters, served by one
\* process with the schedule source answering alike, return the same records
\* in the same order, ascending by start time.
C17_SearchIdempotent ==
    ( /\ listing.served /\ prevListing.served
      /\ listing.date = prevListing.date
      /\ listing.location = prevListing.location
      /\ listing.type = prevListing.type
      /\ listing.api = prevListing.api )
        => /\ listing.classes = prevListing.classes
           /\ \A n \in 1..(Len(listing.classes) - 1) :
                StartKey(listing.classes[n]) <= StartKey(listing.classes[n + 1])

\* C18 (as claimed): over any sequence of chat and /classes requests of one
\* process the schedule records are fetched from the external source at most
\* once; later lookups are answered from the cache.
C18_LoadedAtMostOnce == fetches <= 1

\* the suggestion objects (dicts) among the raw suggestions of the answer
AnswerSuggestionObjects ==
    IF answer.payload.suggestions.k = "val"
    THEN { i \in 1..Len(answer.payload.suggestions.v) : answer.payload.suggestions.v[i].isDict }
    ELSE {}

\* positions at which a line of text starts with w
LineStarts(text, w) ==
    { i \in 1..Len(text) : StartsAt(text, i, w) /\ (i = 1 \/ CharAt(text, i - 1) = "\n") }

\* C19: whenever the generative path succeeds and its payload holds at least
\* one suggestion object, generate() returns type 'message' without a
\* suggestions list, and the message text has one bullet line per suggestion
\* object, each starting with that suggestion's title ('Try This' when it has
\* none), whatever type the payload declared.
C19_SuggestionsBecomeText ==
    (pc = "done" /\ via = "llm" /\ AnswerSuggestionObjects # {})
        => /\ resp.status = 200
           /\ resp.type = "message"
           /\ resp.suggestions = <<>>
           /\ Cardinality(LineStarts(resp.message, "- ")) = Cardinality(AnswerSuggestionObjects)
           /\ \A i \in AnswerSuggestionObjects :
                LET raw == answer.payload.suggestions.v[i]
                IN  LineStarts(resp.message,
                               "- " \o (IF Truthy(raw.title) THEN raw.title.v ELSE "Try This")) # {}

\* an answer declared as 'suggestions' with two suggestion objects was
\* returned as a message
C19_Witness ==
    /\ pc = "done" /\ via = "llm"
    /\ answer.payload.type = Val("suggestions")
    /\ Cardinality(AnswerSuggestionObjects) = 2
    /\ resp.type = "message"
    /\ resp.suggestions = <<>>

\* the payload carries an ISO value under key
HasIso(payload, key) == key \in DOMAIN payload /\ Len(payload[key]) = 3

\* C20: every suggestion of kind 'workout' or 'class' in a response returned
\* to the caller carries both a startISO and an endISO value, present and not
\* null.
C20_SchedulableHaveIso ==
    (pc = "done" /\ resp.status = 200)
        => \A i \in 1..Len(resp.suggestions) :
             resp.suggestions[i].kind \in {"workout", "class"}
               => /\ HasIso(resp.suggestions[i].payload, "startISO")
                  /\ HasIso(resp.suggestions[i].payload, "endISO")

\* a returned rule-based response whose class suggestion carries both values
C20_Witness ==
    /\ pc = "done" /\ resp.status = 200 /\ via = "rule"
    /\ Len(resp.suggestions) >= 1
    /\ resp.suggestions[1].kind = "class"
    /\ resp.suggestions[1].payload.startISO = <<req.now.day, 19, 0>>
    /\ resp.suggestions[1].payload.endISO = <<req.now.day, 20, 0>>

\* C21 (as claimed): no response returned by generate() has type 'message'
\* together with a non-empty suggestions list; a response that carries
\* suggestions always has type 'suggestions'.
C21_SuggestionsImplyType ==
    (pc = "done" /\ via \in {"llm", "rule"} /\ resp.status = 200 /\ Len(resp.suggestions) > 0)
        => resp.type = "suggestions"

\* C22: within one request chat.completions.create is invoked at most once;
\* the step after a failed invocation is the rule-based path with no second
\* invocation, and a request on the rule-based path never goes back to the
\* LLM attempt.
C22_NoRetry ==
    [][ /\ llmCalls' <= 1
        /\ pc = "llm" =>
             /\ pc' \in {"rule", "done"}
             /\ CallLLMResult(answer', req.profile, req.now).type = "none"
                  => (pc' = "rule" /\ llmCalls' = 1 /\ resp' = NoneResult)
        /\ pc = "rule" => (pc' = "done" /\ via' = "rule" /\ llmCalls' = llmCalls)
      ]_vars

\* a request whose one invocation raised was answered by the rule-based path
C22_Witness ==
    /\ pc = "done" /\ via = "rule" /\ llmCalls = 1
    /\ answer.kind = "exception"

\* C23 (as claimed): a request that waits for the generative model or for the
\* schedule API eventually completes, even when the external side never
\* answers.
C23_RequestCompletes == (pc \in {"llm", "fetch"}) ~> (pc = "done")

\* the schedule lookup alone: a /classes request that waits for the schedule
\* API eventually completes
ScheduleFetchCompletes == (pc = "fetch") ~> (pc = "done" /\ listing.served)

\* C24 (as claimed): the /classes listing returns at most 5 records and a chat
\* reply embeds at most 4 class suggestions, however many records the
\* schedule lookup yields.
C24_ResultsCapped ==
    /\ listing.served => Len(listing.classes) <= 5
    /\ Cardinality({ i \in 1..Len(resp.suggestions) : resp.suggestions[i].kind = "class" }) <= 4

\* the keyword group of a topic tag
TopicKeywords(tag) ==
    CASE tag = "workout" -> {"workout", "exercise", "training", "fitness"}
      [] tag = "meal" -> {"meal", "food", "eat", "dinner", "lunch", "breakfast"}
      [] tag = "class" -> {"class", "myrec", "schedule", "reserve"}
      [] tag = "plan" -> {"plan", "daily", "today", "schedule"}

\* positions of the last five turns of a history
LastFive(history) == { i \in 1..Len(history) : i > Len(history) - 5 }

\* C25: the tag set returned by the context analyzer holds a tag exactly when
\* one of the last five history turns contains, case-folded, a keyword of the
\* tag's group; turns before that window do not change it, and the call does
\* not raise.
C25_TopicsFromLastFive ==
    (pc = "fnret" /\ call.fn = "_analyze_conversation_history")
        => /\ ret.exc = "none"
           /\ \A tag \in {"workout", "meal", "class", "plan"} :
                (\E k \in 1..Len(ret.topics) : ret.topics[k] = tag)
                  <=> (\E i \in LastFive(call.history) :
                         AnyIn(Lower(call.history[i].content), TopicKeywords(tag)))
           /\ \A k \in 1..Len(ret.topics) : ret.topics[k] \in {"workout", "meal", "class", "plan"}

\* a history of six turns whose oldest turn alone mentions fitness and whose
\* latest turn mentions a schedule: no workout tag, both class and plan
C25_Witness ==
    /\ pc = "fnret" /\ call.fn = "_analyze_conversation_history"
    /\ Len(call.history) = 6
    /\ call.history[1].content = "Fitness"
    /\ \A i \in 2..5 : call.history[i].content = "ok"
    /\ call.history[6].content = "my schedule"
    /\ ret.topics = <<"class", "plan">>

\* the calendar date written by the leftmost match of one pattern of
\* _parse_specific_date, NoDate when the pattern does not match or the numbers
\* matched are no calendar date
MatchedDate(kind, message, now) ==
    LET i == FirstIndex(kind, message)
    IN  IF i = 0 THEN NoDate
        ELSE IF kind = "iso"
        THEN LET g == IsoGroup(message, i)
             IN  MakeDate(ParseInt(g.y), ParseInt(g.m), ParseInt(g.d))
        ELSE IF kind = "slash"
        THEN LET g == SlashGroup(message, i)
             IN  MakeDate(IF g.y # "" THEN ParseInt(g.y) ELSE Today(now).year,
                          ParseInt(g.m), ParseInt(g.d))
        ELSE LET g == MonthGroup(message, i)
             IN  MakeDate(IF g.y # "" THEN ParseInt(g.y) ELSE Today(now).year,
                          g.m, ParseInt(g.d))

\* C26 (as claimed): _parse_specific_date returns the date of the first of the
\* ISO, slash and month-name patterns, in that order, whose match is a valid
\* calendar date; a match that is no calendar date is passed over; the result
\* is 'no explicit date' when no pattern gives one.
C26_FirstValidPattern ==
    (pc = "fnret" /\ call.fn = "_parse_specific_date")
        => ret.date =
             IF MatchedDate("iso", call.message, call.now) # NoDate
             THEN MatchedDate("iso", call.message, call.now)
             ELSE IF MatchedDate("slash", call.message, call.now) # NoDate
             THEN MatchedDate("slash", call.message, call.now)
             ELSE MatchedDate("month", call.message, call.now)

\* the same for messages whose ISO-shaped token, if any, has a two-digit
\* month and a two-digit day
FirstValidPatternPadded ==
    (pc = "fnret" /\ call.fn = "_parse_specific_date"
       /\ LET i == FirstIndex("iso", call.message)
          IN  i # 0 => (Len(IsoGroup(call.message, i).m) = 2 /\ Len(IsoGroup(call.message, i).d) = 2))
        => ret.date =
             IF MatchedDate("iso", call.message, call.now) # NoDate
             THEN MatchedDate("iso", call.message, call.now)
             ELSE IF MatchedDate("slash", call.message, call.now) # NoDate
             THEN MatchedDate("slash", call.message, call.now)
             ELSE MatchedDate("month", call.message, call.now)

\* C28 (as claimed): every response the generative path returns after
\* normalization has type 'message' or 'suggestions', whatever the payload
\* held under 'type'.
C28_NormalizedType ==
    (pc = "done" /\ via = "llm") => resp.type \in {"message", "suggestions"}

\* C29 (as claimed): an add_event request with no Authorization header, or
\* with an empty token, is answered with status 401 and the calendar service
\* is not invoked for it.
C29_MissingTokenIs401 ==
    (pc = "fnret" /\ call.fn = "add_event"
       /\ call.authorization \in {Absent(""), Val(""), Val("Bearer ")})
        => (ret.status = 401 /\ ~ret.invoked)

\* the part about the calendar service: it is invoked exactly for the
\* requests that carry a non-empty token
ServiceInvokedOnlyWithToken ==
    (pc = "fnret" /\ call.fn = "add_event")
        => (ret.invoked <=> call.authorization \in {Val("Bearer abc"), Val("abc")})

\* the chunks are complete lines: every head is directly followed by the tail
\* of the same entry, and every tail directly follows its head
CompleteLines(data) ==
    \A i \in 1..Len(data) :
        /\ data[i].part = "head" => (i < Len(data) /\ data[i + 1] = Chunk(data[i].entry, "tail"))
        /\ data[i].part = "tail" => (i > 1 /\ data[i - 1] = Chunk(data[i].entry, "head"))

\* the log_estimation call of entry e has returned
Returned(e) ==
    e \in 1..entries /\ \A t \in Threads : threads[t].entry # e

\* number of line ends of entry e in the file
LineEnds(e) ==
    Cardinality({ i \in 1..Len(file.data) :
                    file.data[i].entry = e /\ file.data[i].part \in {"line", "tail"} })

\* C30: with log_estimation and get_recent_estimations calls running
\* concurrently on pool threads, every entry whose call returned is in the
\* file exactly once as one complete line, lines of different entries never
\* interleave (the only incomplete line is the one the lock holder is
\* writing, at the end of the file), and no reader has read a partial line.
C30_LogLinesAtomic ==
    /\ \A e \in 1..entries :
         /\ Returned(e) => LineEnds(e) = 1
         /\ LineEnds(e) <= 1
    /\ \/ CompleteLines(file.data)
       \/ /\ Len(file.data) > 0
          /\ CompleteLines(SubSeq(file.data, 1, Len(file.data) - 1))
          /\ file.data[Len(file.data)].part = "head"
          /\ lock \in Threads
          /\ threads[lock].pc = "w_mid"
          /\ threads[lock].entry = file.data[Len(file.data)].entry
    /\ \A t \in Threads : CompleteLines(threads[t].seen)

\* a reader has read two lines of different entries, the first written in two
\* parts, while a writer holds the lock in the middle of a third line and
\* nobody else is in a call
C30_Witness ==
    \E t \in Threads, u \in Threads :
        /\ t # u
        /\ threads[u].pc = "w_mid"
        /\ threads[t].pc = "idle"
        /\ Len(threads[t].seen) = 3
        /\ threads[t].seen[1].part = "head"
        /\ threads[t].seen[3].part = "line"
        /\ Len(file.data) = 4

ClassReplyCapped ==
    (pc = "fnret" /\ call.fn = "_build_class_response") => Len(ret.reply.suggestions) <= 4

\* the suggestions of one class reply over a single searched date are distinct
SingleDateDistinctIds ==
    (/\ pc = "fnret" /\ call.fn = "_build_class_response"
     /\ Len(ret.query.dates) = 1 /\ ret.reply.status = 200)
        => \A i, j \in 1..Len(ret.reply.suggestions) :
              ret.reply.suggestions[i].id = ret.reply.suggestions[j].id => i = j

====
